---- MODULE Spec2Model ----
(***************************************************************************)
(* SkyCanvas conductor: the ArduLink worker tasks (receive, send,          *)
(* heartbeat, request-stream) sharing one vehicle connection behind a      *)
(* tokio Mutex and one stop flag, talking over the Redis pub/sub bus, and  *)
(* the health monitor's classifier.                                        *)
(***************************************************************************)
EXTENDS Integers, Sequences, FiniteSets, TLC

\* ---------------------------------------------------------------- bounds
\* payloads a subscription may hold unread before its publisher (the link's next
\* HEARTBEAT frame, the heartbeat worker's next periodic emit) adds another
MaxInbox == 1
\* payloads published by bus clients outside the conductor
MaxClientPublish == 1
\* longest run of vehicle.recv() results fed to the receive worker on its own
MaxScript == 3
\* the two crossbeam channels hold 500 messages; the model's channels hold MaxQueue
MaxQueue == 1
\* calls of stop_task
MaxStops == 2
\* transformers registered with the transform pipeline
MaxTransformers == 3
\* messages the transform pipeline's subscription returns
MaxXfMessages == 2
\* errors_comm values 0..MaxErrorsComm are fed to check_system_health, and the u16 maximum
MaxErrorsComm == 150

\* ---------------------------------------------------------------- topics
SendTopic == "channels/ardulink/send"
HeartbeatSubscribeTopic == "channels/ardulink/recv"
RequestStreamSubscribeTopic == "channels/ardulink/recv/HEARTBEAT"

\* format!("channels/ardulink/recv/{}", msg_type)
RecvTopic_Flat(tag) == "channels/ardulink/recv"
RecvTopic(tag) == "channels/ardulink/recv/" \o tag

\* ---------------------------------------------------------------- messages
\* MavMessage values the workers build or the link delivers
VehicleHeartbeat == [tag |-> "HEARTBEAT", mavtype |-> "MAV_TYPE_QUADROTOR", rate |-> 0]
GcsHeartbeat == [tag |-> "HEARTBEAT", mavtype |-> "MAV_TYPE_GCS", rate |-> 0]
RequestStreamMsg == [tag |-> "REQUEST_DATA_STREAM", mavtype |-> "", rate |-> 2]
AttitudeMsg == [tag |-> "ATTITUDE", mavtype |-> "", rate |-> 0]
NoMsg == [tag |-> "", mavtype |-> "", rate |-> 0]

\* serde_json::to_string(&msg): a JSON document carrying the variant tag and fields
to_json(msg) == [json |-> TRUE, doc |-> msg]
\* a payload that is not a MavMessage document
Garbage == [json |-> FALSE, doc |-> NoMsg]
\* serde_json::from_str::<MavMessage>(&payload)
from_json_ok_Lenient(payload) == TRUE
from_json_ok(payload) == payload.json
from_json(payload) == payload.doc

\* match msg { MavMessage::HEARTBEAT(heartbeat) => break, _ => {} }
IsHeartbeat_AnyMessage(msg) == TRUE
IsHeartbeat(msg) == msg.tag = "HEARTBEAT"

\* what vehicle.recv() can return: Ok((header, msg)) or Err(MessageReadError)
LinkFrames == {VehicleHeartbeat, AttitudeMsg}
LinkErrors == {"WouldBlock", "IoFatal", "ParseError"}
Ok(m) == [ok |-> TRUE, msg |-> m, err |-> ""]
Err(e) == [ok |-> FALSE, msg |-> NoMsg, err |-> e]
LinkResults == {Ok(m) : m \in LinkFrames} \cup {Err(e) : e \in LinkErrors}

\* the runs of results a link can return before it has nothing more to read
LinkScripts == UNION {[1..n -> LinkResults] : n \in 0..MaxScript}

\* what a websocket client can ask groundlink to publish
ClientTopics == {SendTopic, HeartbeatSubscribeTopic, RequestStreamSubscribeTopic}
ClientPayloads == {to_json(VehicleHeartbeat), to_json(AttitudeMsg), Garbage}

\* ---------------------------------------------------------------- state
VARIABLES
    should_stop,      \* Arc<AtomicBool>
    vehicle_owner,    \* tokio Mutex around the connection: who has the permit
    vehicle_waiters,  \* tokio Mutex: FIFO queue of tasks suspended in lock()
    recv_pc, recv_msg,
    send_pc, send_msg, send_inbox,
    hb_pc, hb_inbox, hb_seen, hb_published,
    rs_pc, rs_inbox, rs_seen, rs_count,
    recv_hb_after_sub, \* history: recv published HEARTBEAT after the heartbeat worker subscribed
    client_count

linkVars == <<should_stop, vehicle_owner, vehicle_waiters, recv_pc, recv_msg,
              send_pc, send_msg, send_inbox,
              hb_pc, hb_inbox, hb_seen, hb_published,
              rs_pc, rs_inbox, rs_seen, rs_count, recv_hb_after_sub, client_count>>

\* health monitor (ArdulinkTask_Health)
VARIABLES
    health_pc,
    current_status, last_reason,
    has_sys_status_data, last_sys_status,
    has_ekf_data, last_ekf_status,
    since_check,      \* time elapsed since last_check_time, in milliseconds
    since_update,     \* time elapsed since last_update_time, in milliseconds
    health_published, \* the last (status, reason) pair put on the health topics
    health_emitted,   \* history: the latest handler run put a pair on the health topics
    seen_sys_status,  \* history: the SYS_STATUS data most recently delivered on its channel
    seen_ekf_status,  \* history: the EKF_STATUS_REPORT data most recently delivered
    stale_replaced,   \* history: a delivery carried data differing from the data stored
    health_stream     \* the subscription stream: "open", "closed" once it has ended,
                      \* "closed_ran" once a periodic check has run after that

healthVars == <<health_pc, current_status, last_reason, has_sys_status_data, last_sys_status,
                has_ekf_data, last_ekf_status, since_check, since_update, health_published,
                health_emitted, seen_sys_status, seen_ekf_status, stale_replaced,
                health_stream>>

\* one call of check_system_health on a SYS_STATUS_DATA value
VARIABLES
    chk_pc,
    chk_sys_status,   \* the argument
    chk_result        \* (overall_healthy, reason)

checkVars == <<chk_pc, chk_sys_status, chk_result>>

\* the serial link as a finite run of vehicle.recv() results, and what became of them
VARIABLES
    link_frames,      \* results the link has yet to return
    recv_returned,    \* history: results vehicle.recv() has returned to the receive worker
    recv_published    \* history: (topic, payload) pairs the receive worker published

wireVars == <<link_frames, recv_returned, recv_published>>

\* the Connection Manager (ArdulinkConnection) and the tasks its start_task spawns
VARIABLES
    mgr_pc,           \* where the caller of start_task / stop_task is
    mgr_calls,        \* history: the calls that returned, each with its result
    task_handles,     \* self.task_handles
    handles,          \* stop_task: the list taken out of self.task_handles
    join_results,     \* history: what each handle.await in stop_task returned
    task_pc,          \* the task spawned by start_task, per call
    open_result,      \* history: what mavlink::connect returned in that task
    task_errors,      \* history: (topic, payload) pairs that task put on the error topics
    inner_send_pc,    \* the send task spawned by start_task_inner
    inner_recv_pc,    \* the receive task spawned by start_task_inner
    transmit_channel, \* crossbeam channel from send() to the send task
    recv_channel      \* crossbeam channel from the receive task to recv()

mgrVars == <<mgr_pc, mgr_calls, task_handles, handles, join_results>>
taskVars == <<task_pc, open_result, task_errors>>
innerVars == <<inner_send_pc, inner_recv_pc>>
chanVars == <<transmit_channel, recv_channel>>
connVars == <<mgrVars, taskVars, innerVars, chanVars>>

\* the transform pipeline worker (TransformerTask)
VARIABLES
    transformers,     \* self.transformers
    xf_pc,
    xf_msg,           \* the message the stream returned: (channel, payload)
    xf_index,         \* position of the for loop in self.transformers
    xf_evaluated,     \* history: transformers evaluated on xf_msg, in order
    xf_published,     \* history: (transformer, channel, payload) published for xf_msg
    xf_count,         \* messages the stream has returned
    xf_errors,        \* history: transformers whose transform has returned Err
    xf_stream         \* the subscription stream: "open", or "closed" once it has ended

xfVars == <<transformers, xf_pc, xf_msg, xf_index, xf_evaluated, xf_published, xf_count,
            xf_errors, xf_stream>>

\* the arm scenario (ScenarioRunner running ScenarioLabArm) and its subscription
VARIABLES
    arm_pc,           \* where ScenarioRunner::run / ScenarioLabArm::run is
    current_t,        \* ScenarioRunner.current_t, in tenths of a second
    health_verified,  \* ScenarioLabArm.health_verified
    arm_stream,       \* wait_for_message: messages the subscription has yet to return
    arm_closed,       \* wait_for_message: the subscription has ended
    arm_observed,     \* history: payloads stream.next() returned
    arm_sent          \* history: arm commands published on channels/ardulink/send

scenarioVars == <<arm_pc, current_t, health_verified, arm_closed, arm_observed, arm_sent>>
armVars == <<scenarioVars, arm_stream>>

\* the gen2 link (QuadLink): the IO thread, the tasks thread and the queue they share
VARIABLES
    mav_queue,        \* MavQueues: the one crossbeam channel behind tx and rx
    io_pc,            \* MavIO::start
    io_msg,           \* tick_send: the message queues.recv() returned
    tasks_pc,         \* MavTasks::start
    commands,         \* QuadAppContext.commands
    app_count,        \* commands the app has pushed
    mav_enqueued,     \* history: messages passed to MavQueues::send
    mav_sent,         \* history: messages written with mav_con.send
    mav_processed     \* history: messages MavTasks::process_message handled

quadVars == <<mav_queue, io_pc, io_msg, tasks_pc, commands, app_count,
              mav_enqueued, mav_sent, mav_processed>>

labVars == <<armVars, quadVars>>

\* every variable but should_stop that the Connection Manager leaves alone
workerVars == <<vehicle_owner, vehicle_waiters, recv_pc, recv_msg,
                send_pc, send_msg, send_inbox,
                hb_pc, hb_inbox, hb_seen, hb_published,
                rs_pc, rs_inbox, rs_seen, rs_count, recv_hb_after_sub, client_count,
                healthVars, checkVars, wireVars, xfVars, labVars>>

vars == <<linkVars, healthVars, checkVars, wireVars, connVars, xfVars, labVars>>

NoOwner == "none"

\* ---------------------------------------------------------------- tokio Mutex
\* lock(): the fast path takes the permit only when nobody holds it
TryLock_Barging(owner) == TRUE
TryLock(owner) == owner = NoOwner

\* dropping the guard: the permit goes to the first waiter, if any
UnlockOwner_NoHandoff(waiters) == NoOwner
UnlockOwner(waiters) == IF waiters = <<>> THEN NoOwner ELSE Head(waiters)
UnlockWaiters(waiters) == IF waiters = <<>> THEN <<>> ELSE Tail(waiters)

Unlock ==
    /\ vehicle_owner' = UnlockOwner(vehicle_waiters)
    /\ vehicle_waiters' = UnlockWaiters(vehicle_waiters)

\* program points at which each worker's MutexGuard is alive
RecvHoldsGuard == recv_pc \in {"recv", "publish", "sleep", "check_stop", "yield"}
SendHoldsGuard == send_pc \in {"write"}

\* ---------------------------------------------------------------- bus
Terminated == {"exit", "failed", "panicked"}
SendSubscribed == send_pc \notin ({"init"} \cup Terminated)
HbSubscribed == hb_pc \notin ({"init"} \cup Terminated)
RsSubscribed == rs_pc \notin ({"init"} \cup Terminated)

\* Redis SUBSCRIBE is exact-match on the channel name
Deliver(inbox, subscribed, subTopic, topic, payload) ==
    IF subscribed /\ topic = subTopic THEN Append(inbox, payload) ELSE inbox

\* redis.client.publish(topic, payload): every matching subscription gets the payload
BusPublish(topic, payload) ==
    /\ send_inbox' = Deliver(send_inbox, SendSubscribed, SendTopic, topic, payload)
    /\ hb_inbox' = Deliver(hb_inbox, HbSubscribed, HeartbeatSubscribeTopic, topic, payload)
    /\ rs_inbox' = Deliver(rs_inbox, RsSubscribed, RequestStreamSubscribeTopic, topic, payload)

\* ---------------------------------------------------------------- receive worker
\* while !should_stop { if should_stop { break } let vehicle = vehicle.lock().await;
RecvLoop ==
    /\ recv_pc = "loop"
    /\ IF should_stop
         THEN /\ recv_pc' = "exit"
              /\ UNCHANGED <<vehicle_owner, vehicle_waiters>>
         ELSE IF TryLock(vehicle_owner)
              THEN /\ vehicle_owner' = "recv"
                   /\ recv_pc' = "recv"
                   /\ UNCHANGED vehicle_waiters
              ELSE /\ vehicle_waiters' = Append(vehicle_waiters, "recv")
                   /\ recv_pc' = "wait_lock"
                   /\ UNCHANGED vehicle_owner
    /\ UNCHANGED <<should_stop, recv_msg, send_pc, send_msg, send_inbox,
                   hb_pc, hb_inbox, hb_seen, hb_published, rs_pc, rs_inbox, rs_seen, rs_count,
                   recv_hb_after_sub, client_count, healthVars, checkVars, connVars, labVars, xfVars, wireVars>>

\* the suspended lock() future resumes once the permit was handed over
RecvLockGranted ==
    /\ recv_pc = "wait_lock"
    /\ vehicle_owner = "recv"
    /\ recv_pc' = "recv"
    /\ UNCHANGED <<should_stop, vehicle_owner, vehicle_waiters, recv_msg,
                   send_pc, send_msg, send_inbox,
                   hb_pc, hb_inbox, hb_seen, hb_published, rs_pc, rs_inbox, rs_seen, rs_count,
                   recv_hb_after_sub, client_count, healthVars, checkVars, connVars, labVars, xfVars, wireVars>>

\* match recv_result { Ok(..) => publish, Err(Io(e)) => sleep / break, _ => {} }
\* The guard `vehicle` lives until the end of the loop body: break drops it.
RecvMatch_ParseErrorBreaks(r) ==
    /\ IF r.ok
         THEN /\ recv_msg' = r.msg
              /\ recv_pc' = "publish"
              /\ UNCHANGED <<vehicle_owner, vehicle_waiters>>
         ELSE /\ CASE r.err = "WouldBlock" ->
                        /\ recv_pc' = "sleep"
                        /\ UNCHANGED <<vehicle_owner, vehicle_waiters>>
                   [] r.err = "IoFatal" ->
                        IF ~should_stop
                        THEN /\ recv_pc' = "exit"
                             /\ Unlock
                        ELSE /\ recv_pc' = "check_stop"
                             /\ UNCHANGED <<vehicle_owner, vehicle_waiters>>
                   [] r.err = "ParseError" ->
                        /\ recv_pc' = "exit"
                        /\ Unlock
              /\ UNCHANGED recv_msg

RecvMatch_FatalRetried(r) ==
    /\ IF r.ok
         THEN /\ recv_msg' = r.msg
              /\ recv_pc' = "publish"
              /\ UNCHANGED <<vehicle_owner, vehicle_waiters>>
         ELSE /\ CASE r.err = "WouldBlock" ->
                        /\ recv_pc' = "sleep"
                        /\ UNCHANGED <<vehicle_owner, vehicle_waiters>>
                   [] r.err = "IoFatal" ->
                        /\ recv_pc' = "sleep"
                        /\ UNCHANGED <<vehicle_owner, vehicle_waiters>>
                   [] r.err = "ParseError" ->
                        /\ recv_pc' = "check_stop"
                        /\ UNCHANGED <<vehicle_owner, vehicle_waiters>>
              /\ UNCHANGED recv_msg

RecvMatch(r) ==
    /\ IF r.ok
         THEN /\ recv_msg' = r.msg
              /\ recv_pc' = "publish"
              /\ UNCHANGED <<vehicle_owner, vehicle_waiters>>
         ELSE /\ CASE r.err = "WouldBlock" ->
                        /\ recv_pc' = "sleep"
                        /\ UNCHANGED <<vehicle_owner, vehicle_waiters>>
                   [] r.err = "IoFatal" ->
                        IF ~should_stop
                        THEN /\ recv_pc' = "exit"
                             /\ Unlock
                        ELSE /\ recv_pc' = "check_stop"
                             /\ UNCHANGED <<vehicle_owner, vehicle_waiters>>
                   [] r.err = "ParseError" ->
                        /\ recv_pc' = "check_stop"
                        /\ UNCHANGED <<vehicle_owner, vehicle_waiters>>
              /\ UNCHANGED recv_msg

\* let recv_result = vehicle.recv(), the link free to return any result
RecvCall ==
    /\ recv_pc = "recv"
    /\ \E r \in LinkResults :
         /\ (r.ok /\ r.msg.tag = "HEARTBEAT") => Len(rs_inbox) < MaxInbox
         /\ RecvMatch(r)
    /\ UNCHANGED <<should_stop, send_pc, send_msg, send_inbox,
                   hb_pc, hb_inbox, hb_seen, hb_published, rs_pc, rs_inbox, rs_seen, rs_count,
                   recv_hb_after_sub, client_count, healthVars, checkVars, connVars, labVars, xfVars, wireVars>>

\* let recv_result = vehicle.recv(), the link returning the next result of link_frames,
\* and WouldBlock once there is nothing left to read
RecvCallScripted ==
    /\ recv_pc = "recv"
    /\ IF link_frames = <<>>
         THEN /\ RecvMatch(Err("WouldBlock"))
              /\ UNCHANGED <<link_frames, recv_returned>>
         ELSE /\ RecvMatch(Head(link_frames))
              /\ link_frames' = Tail(link_frames)
              /\ recv_returned' = Append(recv_returned, Head(link_frames))
    /\ UNCHANGED <<should_stop, send_pc, send_msg, send_inbox,
                   hb_pc, hb_inbox, hb_seen, hb_published, rs_pc, rs_inbox, rs_seen, rs_count,
                   recv_hb_after_sub, client_count, healthVars, checkVars, connVars, labVars, xfVars, recv_published>>

\* Ok((_header, msg)) => publish(format!("channels/ardulink/recv/{}", msg_type), &msg_json)
RecvPublishMsg ==
    /\ recv_pc = "publish"
    /\ BusPublish(RecvTopic(recv_msg.tag), to_json(recv_msg))
    /\ recv_hb_after_sub' = (recv_hb_after_sub \/ (recv_msg.tag = "HEARTBEAT" /\ HbSubscribed))
    /\ recv_msg' = NoMsg
    /\ recv_pc' = "check_stop"
    /\ UNCHANGED <<should_stop, vehicle_owner, vehicle_waiters, send_pc, send_msg,
                   hb_pc, hb_seen, hb_published, rs_pc, rs_seen, rs_count,
                   client_count, healthVars, checkVars, connVars, labVars, xfVars>>

RecvPublish == RecvPublishMsg /\ UNCHANGED wireVars

\* the same publish, kept in the history of what went out on the bus
RecvPublishLogged ==
    /\ RecvPublishMsg
    /\ recv_published' = Append(recv_published, <<RecvTopic(recv_msg.tag), to_json(recv_msg)>>)
    /\ UNCHANGED <<link_frames, recv_returned>>

\* WouldBlock => time::sleep(Duration::from_millis(10)).await
RecvSleep ==
    /\ recv_pc = "sleep"
    /\ recv_pc' = "check_stop"
    /\ UNCHANGED <<should_stop, vehicle_owner, vehicle_waiters, recv_msg,
                   send_pc, send_msg, send_inbox,
                   hb_pc, hb_inbox, hb_seen, hb_published, rs_pc, rs_inbox, rs_seen, rs_count,
                   recv_hb_after_sub, client_count, healthVars, checkVars, connVars, labVars, xfVars, wireVars>>

\* if should_stop { break }
RecvCheckStop ==
    /\ recv_pc = "check_stop"
    /\ IF should_stop
         THEN /\ recv_pc' = "exit"
              /\ Unlock
         ELSE /\ recv_pc' = "yield"
              /\ UNCHANGED <<vehicle_owner, vehicle_waiters>>
    /\ UNCHANGED <<should_stop, recv_msg, send_pc, send_msg, send_inbox,
                   hb_pc, hb_inbox, hb_seen, hb_published, rs_pc, rs_inbox, rs_seen, rs_count,
                   recv_hb_after_sub, client_count, healthVars, checkVars, connVars, labVars, xfVars, wireVars>>

\* task::yield_now().await; then the loop body ends and the guard is dropped
RecvYield ==
    /\ recv_pc = "yield"
    /\ Unlock
    /\ recv_pc' = "loop"
    /\ UNCHANGED <<should_stop, recv_msg, send_pc, send_msg, send_inbox,
                   hb_pc, hb_inbox, hb_seen, hb_published, rs_pc, rs_inbox, rs_seen, rs_count,
                   recv_hb_after_sub, client_count, healthVars, checkVars, connVars, labVars, xfVars, wireVars>>

RecvWorker == RecvLoop \/ RecvLockGranted \/ RecvCall \/ RecvPublish \/ RecvSleep
              \/ RecvCheckStop \/ RecvYield

\* ---------------------------------------------------------------- send worker
\* redis_sink.subscribe("channels/ardulink/send").await?
SendSubscribe ==
    /\ send_pc = "init"
    /\ send_pc' = "loop"
    /\ UNCHANGED <<should_stop, vehicle_owner, vehicle_waiters, recv_pc, recv_msg,
                   send_msg, send_inbox,
                   hb_pc, hb_inbox, hb_seen, hb_published, rs_pc, rs_inbox, rs_seen, rs_count,
                   recv_hb_after_sub, client_count, healthVars, checkVars, connVars, labVars, xfVars, wireVars>>

\* while !should_stop { if should_stop { break } ...
SendLoop ==
    /\ send_pc = "loop"
    /\ send_pc' = IF should_stop THEN "exit" ELSE "next"
    /\ send_inbox' = IF should_stop THEN <<>> ELSE send_inbox
    /\ UNCHANGED <<should_stop, vehicle_owner, vehicle_waiters, recv_pc, recv_msg,
                   send_msg,
                   hb_pc, hb_inbox, hb_seen, hb_published, rs_pc, rs_inbox, rs_seen, rs_count,
                   recv_hb_after_sub, client_count, healthVars, checkVars, connVars, labVars, xfVars, wireVars>>

\* let msg = redis_stream.next().await.unwrap(); from_str::<MavMessage>(&msg)?;
\* { let vehicle = vehicle.lock().await; ...
SendNext ==
    /\ send_pc = "next"
    /\ send_inbox # <<>>
    /\ IF ~from_json_ok(Head(send_inbox))
         THEN /\ send_pc' = "failed"
              /\ send_inbox' = <<>>
              /\ UNCHANGED <<send_msg, vehicle_owner, vehicle_waiters>>
         ELSE /\ send_msg' = from_json(Head(send_inbox))
              /\ send_inbox' = Tail(send_inbox)
              /\ IF TryLock(vehicle_owner)
                   THEN /\ vehicle_owner' = "send"
                        /\ send_pc' = "write"
                        /\ UNCHANGED vehicle_waiters
                   ELSE /\ vehicle_waiters' = Append(vehicle_waiters, "send")
                        /\ send_pc' = "wait_lock"
                        /\ UNCHANGED vehicle_owner
    /\ UNCHANGED <<should_stop, recv_pc, recv_msg,
                   hb_pc, hb_inbox, hb_seen, hb_published, rs_pc, rs_inbox, rs_seen, rs_count,
                   recv_hb_after_sub, client_count, healthVars, checkVars, connVars, labVars, xfVars, wireVars>>

SendLockGranted ==
    /\ send_pc = "wait_lock"
    /\ vehicle_owner = "send"
    /\ send_pc' = "write"
    /\ UNCHANGED <<should_stop, vehicle_owner, vehicle_waiters, recv_pc, recv_msg,
                   send_msg, send_inbox,
                   hb_pc, hb_inbox, hb_seen, hb_published, rs_pc, rs_inbox, rs_seen, rs_count,
                   recv_hb_after_sub, client_count, healthVars, checkVars, connVars, labVars, xfVars, wireVars>>

\* vehicle.send(&MavHeader::default(), &msg).unwrap(); } -- the block ends, the guard drops;
\* a failed write panics the task, and unwinding drops the guard too
SendWrite ==
    /\ send_pc = "write"
    /\ \E ok \in BOOLEAN :
         IF ok
         THEN /\ send_pc' = "check_stop"
              /\ UNCHANGED send_inbox
         ELSE /\ send_pc' = "panicked"
              /\ send_inbox' = <<>>
    /\ send_msg' = NoMsg
    /\ Unlock
    /\ UNCHANGED <<should_stop, recv_pc, recv_msg,
                   hb_pc, hb_inbox, hb_seen, hb_published, rs_pc, rs_inbox, rs_seen, rs_count,
                   recv_hb_after_sub, client_count, healthVars, checkVars, connVars, labVars, xfVars, wireVars>>

\* if should_stop { break }
SendCheckStop ==
    /\ send_pc = "check_stop"
    /\ send_pc' = IF should_stop THEN "exit" ELSE "loop"
    /\ send_inbox' = IF should_stop THEN <<>> ELSE send_inbox
    /\ UNCHANGED <<should_stop, vehicle_owner, vehicle_waiters, recv_pc, recv_msg,
                   send_msg,
                   hb_pc, hb_inbox, hb_seen, hb_published, rs_pc, rs_inbox, rs_seen, rs_count,
                   recv_hb_after_sub, client_count, healthVars, checkVars, connVars, labVars, xfVars, wireVars>>

SendWorker == SendSubscribe \/ SendLoop \/ SendNext \/ SendLockGranted \/ SendWrite
              \/ SendCheckStop

\* ---------------------------------------------------------------- heartbeat worker
\* redis_sink.subscribe("channels/ardulink/recv").await?
HbSubscribe ==
    /\ hb_pc = "init"
    /\ hb_pc' = "wait_loop"
    /\ UNCHANGED <<should_stop, vehicle_owner, vehicle_waiters, recv_pc, recv_msg,
                   send_pc, send_msg, send_inbox,
                   hb_inbox, hb_seen, hb_published, rs_pc, rs_inbox, rs_seen, rs_count,
                   recv_hb_after_sub, client_count, healthVars, checkVars, connVars, labVars, xfVars, wireVars>>

\* first loop: while !should_stop { if should_stop { break } ...
HbWaitLoop ==
    /\ hb_pc = "wait_loop"
    /\ hb_pc' = IF should_stop THEN "emit_loop" ELSE "wait_next"
    /\ UNCHANGED <<should_stop, vehicle_owner, vehicle_waiters, recv_pc, recv_msg,
                   send_pc, send_msg, send_inbox,
                   hb_inbox, hb_seen, hb_published, rs_pc, rs_inbox, rs_seen, rs_count,
                   recv_hb_after_sub, client_count, healthVars, checkVars, connVars, labVars, xfVars, wireVars>>

\* redis_stream.next().await.unwrap(); from_str(..)?; match msg { HEARTBEAT(_) => break, _ => {} }
HbWaitNext ==
    /\ hb_pc = "wait_next"
    /\ hb_inbox # <<>>
    /\ IF ~from_json_ok(Head(hb_inbox))
         THEN /\ hb_pc' = "failed"
              /\ hb_inbox' = <<>>
              /\ UNCHANGED hb_seen
         ELSE /\ hb_inbox' = Tail(hb_inbox)
              /\ hb_seen' = (hb_seen \/ from_json(Head(hb_inbox)).tag = "HEARTBEAT")
              /\ hb_pc' = IF IsHeartbeat(from_json(Head(hb_inbox)))
                          THEN "emit_loop" ELSE "wait_loop"
    /\ UNCHANGED <<should_stop, vehicle_owner, vehicle_waiters, recv_pc, recv_msg,
                   send_pc, send_msg, send_inbox,
                   hb_published, rs_pc, rs_inbox, rs_seen, rs_count,
                   recv_hb_after_sub, client_count, healthVars, checkVars, connVars, labVars, xfVars, wireVars>>

\* second loop: while !should_stop { if should_stop { break }
\*    publish("channels/ardulink/send", &hb_json); sleep(1000ms) }
HbEmitLoop ==
    /\ hb_pc = "emit_loop"
    /\ IF should_stop
         THEN /\ hb_pc' = "exit"
              /\ hb_inbox' = <<>>
              /\ UNCHANGED <<send_inbox, rs_inbox, hb_published>>
         ELSE /\ Len(send_inbox) < MaxInbox
              /\ BusPublish(SendTopic, to_json(GcsHeartbeat))
              /\ hb_published' = TRUE
              /\ hb_pc' = "emit_sleep"
    /\ UNCHANGED <<should_stop, vehicle_owner, vehicle_waiters, recv_pc, recv_msg,
                   send_pc, send_msg,
                   hb_seen, rs_pc, rs_seen, rs_count,
                   recv_hb_after_sub, client_count, healthVars, checkVars, connVars, labVars, xfVars, wireVars>>

\* time::sleep(Duration::from_millis(1000)).await
HbEmitSleep ==
    /\ hb_pc = "emit_sleep"
    /\ hb_pc' = "emit_loop"
    /\ UNCHANGED <<should_stop, vehicle_owner, vehicle_waiters, recv_pc, recv_msg,
                   send_pc, send_msg, send_inbox,
                   hb_inbox, hb_seen, hb_published, rs_pc, rs_inbox, rs_seen, rs_count,
                   recv_hb_after_sub, client_count, healthVars, checkVars, connVars, labVars, xfVars, wireVars>>

HbWorker == HbSubscribe \/ HbWaitLoop \/ HbWaitNext \/ HbEmitLoop \/ HbEmitSleep

\* ---------------------------------------------------------------- request-stream worker
\* redis_sink.subscribe("channels/ardulink/recv/HEARTBEAT").await?
RsSubscribe ==
    /\ rs_pc = "init"
    /\ rs_pc' = "wait_loop"
    /\ UNCHANGED <<should_stop, vehicle_owner, vehicle_waiters, recv_pc, recv_msg,
                   send_pc, send_msg, send_inbox,
                   hb_pc, hb_inbox, hb_seen, hb_published, rs_inbox, rs_seen, rs_count,
                   recv_hb_after_sub, client_count, healthVars, checkVars, connVars, labVars, xfVars, wireVars>>

\* while !should_stop { if should_stop { break } ... } falls through to the publish
RsWaitLoop ==
    /\ rs_pc = "wait_loop"
    /\ rs_pc' = IF should_stop THEN "publish" ELSE "wait_next"
    /\ UNCHANGED <<should_stop, vehicle_owner, vehicle_waiters, recv_pc, recv_msg,
                   send_pc, send_msg, send_inbox,
                   hb_pc, hb_inbox, hb_seen, hb_published, rs_inbox, rs_seen, rs_count,
                   recv_hb_after_sub, client_count, healthVars, checkVars, connVars, labVars, xfVars, wireVars>>

\* redis_stream.next().await.unwrap(); from_str(..)?; match msg { HEARTBEAT(_) => break, _ => {} }
RsWaitNext ==
    /\ rs_pc = "wait_next"
    /\ rs_inbox # <<>>
    /\ IF ~from_json_ok(Head(rs_inbox))
         THEN /\ rs_pc' = "failed"
              /\ rs_inbox' = <<>>
              /\ UNCHANGED rs_seen
         ELSE /\ rs_inbox' = Tail(rs_inbox)
              /\ rs_seen' = (rs_seen \/ from_json(Head(rs_inbox)).tag = "HEARTBEAT")
              /\ rs_pc' = IF IsHeartbeat(from_json(Head(rs_inbox)))
                          THEN "publish" ELSE "wait_loop"
    /\ UNCHANGED <<should_stop, vehicle_owner, vehicle_waiters, recv_pc, recv_msg,
                   send_pc, send_msg, send_inbox,
                   hb_pc, hb_inbox, hb_seen, hb_published, rs_count,
                   recv_hb_after_sub, client_count, healthVars, checkVars, connVars, labVars, xfVars, wireVars>>

\* variant of RsPublish that goes back to waiting instead of returning
RsPublish_Loop ==
    /\ rs_pc = "publish"
    /\ send_inbox' = Deliver(send_inbox, SendSubscribed, SendTopic, SendTopic, to_json(RequestStreamMsg))
    /\ rs_count' = rs_count + 1
    /\ rs_inbox' = <<>>
    /\ rs_pc' = "wait_loop"
    /\ UNCHANGED <<should_stop, vehicle_owner, vehicle_waiters, recv_pc, recv_msg,
                   send_pc, send_msg,
                   hb_pc, hb_inbox, hb_seen, hb_published, rs_seen,
                   recv_hb_after_sub, client_count, healthVars, checkVars, connVars, labVars, xfVars, wireVars>>

\* publish("channels/ardulink/send", &rs_json); Ok(())
RsPublish ==
    /\ rs_pc = "publish"
    /\ send_inbox' = Deliver(send_inbox, SendSubscribed, SendTopic, SendTopic, to_json(RequestStreamMsg))
    /\ rs_count' = rs_count + 1
    /\ rs_inbox' = <<>>
    /\ rs_pc' = "exit"
    /\ UNCHANGED <<should_stop, vehicle_owner, vehicle_waiters, recv_pc, recv_msg,
                   send_pc, send_msg,
                   hb_pc, hb_inbox, hb_seen, hb_published, rs_seen,
                   recv_hb_after_sub, client_count, healthVars, checkVars, connVars, labVars, xfVars, wireVars>>

RsWorker == RsSubscribe \/ RsWaitLoop \/ RsWaitNext \/ RsPublish

\* ---------------------------------------------------------------- connection manager
\* stop_task: self.should_stop.store(true, Ordering::SeqCst)
StopTask ==
    /\ ~should_stop
    /\ should_stop' = TRUE
    /\ UNCHANGED <<vehicle_owner, vehicle_waiters, recv_pc, recv_msg,
                   send_pc, send_msg, send_inbox,
                   hb_pc, hb_inbox, hb_seen, hb_published, rs_pc, rs_inbox, rs_seen, rs_count,
                   recv_hb_after_sub, client_count, healthVars, checkVars, connVars, labVars, xfVars, wireVars>>

\* ArdulinkConnection as a whole: start_task, stop_task, send, recv, and the tasks
\* start_task spawns. TaskIds names the calls of start_task.
\* the calls of start_task a run makes
TaskIds == {1, 2}

Range(seq) == {seq[k] : k \in 1..Len(seq)}

IsStop(call) == call[1] = "stop_task"

Completed == {"done", "panicked"}
InnerEnded == {"exit", "exit_fatal", "panicked"}

ErrorMessageTopic == "ardulink/message"
ErrorStateTopic == "ardulink/state"
LogTopic == "log"

\* ArdulinkError::ConnectionError as e.to_string() and as {e:?} render it
ConnectionErrorText == "Connection error: open failed"
ConnectionErrorDebug == "ArduLink => Error: ConnectionError(open failed)"

\* the three publishes of the error branch, in order
ErrorReport == << <<ErrorMessageTopic, ConnectionErrorText>>,
                  <<ErrorStateTopic, "ERROR">>,
                  <<LogTopic, ConnectionErrorDebug>> >>

\* what vehicle.recv() can return to the receive task
ConnLinkResults == {Ok(AttitudeMsg), Err("WouldBlock"), Err("IoFatal"), Err("ParseError")}

\* variant: start_task re-arms the manager by clearing the stop flag
ConnStartTask_Rearm ==
    /\ mgr_pc = "idle"
    /\ \E i \in TaskIds :
         /\ task_pc[i] = "none"
         /\ \A j \in TaskIds : task_pc[j] = "none" => i <= j
         /\ task_pc' = [task_pc EXCEPT ![i] = "open"]
         /\ task_handles' = Append(task_handles, i)
    /\ mgr_calls' = Append(mgr_calls, <<"start_task", "Ok">>)
    /\ should_stop' = FALSE
    /\ UNCHANGED <<workerVars, mgr_pc, handles, join_results,
                   open_result, task_errors, innerVars, chanVars>>

\* start_task: spawn the task, push its handle, return Ok(())
ConnStartTask ==
    /\ mgr_pc = "idle"
    /\ \E i \in TaskIds :
         /\ task_pc[i] = "none"
         /\ \A j \in TaskIds : task_pc[j] = "none" => i <= j
         /\ task_pc' = [task_pc EXCEPT ![i] = "open"]
         /\ task_handles' = Append(task_handles, i)
    /\ mgr_calls' = Append(mgr_calls, <<"start_task", "Ok">>)
    /\ UNCHANGED <<should_stop, workerVars, mgr_pc, handles, join_results,
                   open_result, task_errors, innerVars, chanVars>>

\* start_task_inner up to the spawns: mavlink::connect(..).map_err(ConnectionError)?
TaskOpen(i) ==
    /\ task_pc[i] = "open"
    /\ \E opened \in BOOLEAN :
         IF opened
         THEN /\ open_result' = [open_result EXCEPT ![i] = "Ok"]
              /\ inner_send_pc' = [inner_send_pc EXCEPT ![i] = "loop"]
              /\ inner_recv_pc' = [inner_recv_pc EXCEPT ![i] = "loop"]
              /\ task_pc' = [task_pc EXCEPT ![i] = "join_send"]
         ELSE /\ open_result' = [open_result EXCEPT ![i] = "ConnectionError"]
              /\ task_pc' = [task_pc EXCEPT ![i] = "report"]
              /\ UNCHANGED innerVars
    /\ UNCHANGED <<should_stop, workerVars, mgrVars, task_errors, chanVars>>

\* let _ = send_handle.await
TaskJoinSend(i) ==
    /\ task_pc[i] = "join_send"
    /\ inner_send_pc[i] \in InnerEnded
    /\ task_pc' = [task_pc EXCEPT ![i] = "join_recv"]
    /\ UNCHANGED <<should_stop, workerVars, mgrVars, open_result, task_errors,
                   innerVars, chanVars>>

\* let _ = receive_handle.await; Ok(()): the if let Err(e) of the spawned task is not taken
TaskJoinRecv(i) ==
    /\ task_pc[i] = "join_recv"
    /\ inner_recv_pc[i] \in InnerEnded
    /\ task_pc' = [task_pc EXCEPT ![i] = "done"]
    /\ UNCHANGED <<should_stop, workerVars, mgrVars, open_result, task_errors,
                   innerVars, chanVars>>

\* the if let Err(e) branch of the spawned task: three publishes, each unwrapped
TaskReport(i) ==
    /\ task_pc[i] = "report"
    /\ \E n \in 0..Len(ErrorReport) :
         /\ task_errors' = [task_errors EXCEPT ![i] = Range(SubSeq(ErrorReport, 1, n))]
         /\ task_pc' = [task_pc EXCEPT ![i] =
                           IF n = Len(ErrorReport) THEN "done" ELSE "panicked"]
    /\ UNCHANGED <<should_stop, workerVars, mgrVars, open_result, innerVars, chanVars>>

\* send task: while !should_stop.load()
InnerSendLoop(i) ==
    /\ inner_send_pc[i] = "loop"
    /\ inner_send_pc' = [inner_send_pc EXCEPT ![i] = IF should_stop THEN "exit" ELSE "wait"]
    /\ UNCHANGED <<should_stop, workerVars, mgrVars, taskVars, inner_recv_pc, chanVars>>

\* send task: rx.recv_timeout(100 ms) and the Timeout arm
InnerSendRecvTimeout(i) ==
    /\ inner_send_pc[i] = "wait"
    /\ IF transmit_channel # <<>>
       THEN /\ transmit_channel' = Tail(transmit_channel)
            /\ inner_send_pc' = [inner_send_pc EXCEPT ![i] = "got"]
       ELSE /\ inner_send_pc' = [inner_send_pc EXCEPT ![i] =
                                    IF should_stop THEN "exit" ELSE "loop"]
            /\ UNCHANGED transmit_channel
    /\ UNCHANGED <<should_stop, workerVars, mgrVars, taskVars, inner_recv_pc, recv_channel>>

\* send task, Ok(msg) arm: if should_stop.load() { break }
InnerSendGot(i) ==
    /\ inner_send_pc[i] = "got"
    /\ inner_send_pc' = [inner_send_pc EXCEPT ![i] = IF should_stop THEN "exit" ELSE "send"]
    /\ UNCHANGED <<should_stop, workerVars, mgrVars, taskVars, inner_recv_pc, chanVars>>

\* send task, Ok(msg) arm: if !should_stop.load() { let _ = vehicle.send(..) }
InnerSendWrite(i) ==
    /\ inner_send_pc[i] = "send"
    /\ inner_send_pc' = [inner_send_pc EXCEPT ![i] = "loop"]
    /\ UNCHANGED <<should_stop, workerVars, mgrVars, taskVars, inner_recv_pc, chanVars>>

InnerSend(i) == InnerSendLoop(i) \/ InnerSendRecvTimeout(i) \/ InnerSendGot(i)
                \/ InnerSendWrite(i)

\* receive task: while !should_stop.load() { if should_stop.load() { break } ..
InnerRecvLoop(i) ==
    /\ inner_recv_pc[i] = "loop"
    /\ inner_recv_pc' = [inner_recv_pc EXCEPT ![i] = IF should_stop THEN "exit" ELSE "recv"]
    /\ UNCHANGED <<should_stop, workerVars, mgrVars, taskVars, inner_send_pc, chanVars>>

\* receive task: match vehicle.recv(), the arms that publish nothing
InnerRecvMatch(i, r) ==
    inner_recv_pc' = [inner_recv_pc EXCEPT ![i] =
        IF r.ok THEN "deliver"
        ELSE IF r.err = "IoFatal" /\ ~should_stop THEN "exit_fatal"
        ELSE "check_stop"]

\* variant: a fatal read error also raises the stop flag, taking the sibling tasks down
InnerRecvCall_FatalStopsAll(i) ==
    /\ inner_recv_pc[i] = "recv"
    /\ \E r \in ConnLinkResults :
         /\ InnerRecvMatch(i, r)
         /\ should_stop' = (should_stop \/ (~r.ok /\ r.err = "IoFatal"))
    /\ UNCHANGED <<workerVars, mgrVars, taskVars, inner_send_pc, chanVars>>

InnerRecvCall(i) ==
    /\ inner_recv_pc[i] = "recv"
    /\ \E r \in ConnLinkResults : InnerRecvMatch(i, r)
    /\ UNCHANGED <<should_stop, workerVars, mgrVars, taskVars, inner_send_pc, chanVars>>

\* receive task, Ok arm: recv_tx.send(msg.clone()). With the receiving side alive the call
\* waits for room in the channel; with the receiving side gone it returns SendError, which
\* is logged and breaks the loop only if should_stop is set
InnerRecvDeliver(i) ==
    /\ inner_recv_pc[i] = "deliver"
    /\ \E sent \in BOOLEAN :
         IF sent
         THEN /\ Len(recv_channel) < MaxQueue
              /\ recv_channel' = Append(recv_channel, AttitudeMsg)
              /\ inner_recv_pc' = [inner_recv_pc EXCEPT ![i] = "publish_raw"]
         ELSE /\ inner_recv_pc' = [inner_recv_pc EXCEPT ![i] =
                                      IF should_stop THEN "exit" ELSE "enqueue_failed"]
              /\ UNCHANGED recv_channel
    /\ UNCHANGED <<should_stop, workerVars, mgrVars, taskVars, inner_send_pc,
                   transmit_channel>>

\* receive task, Ok arm: the message is published on ardulink/raw, unwrapped
InnerRecvPublishRaw(i) ==
    /\ inner_recv_pc[i] \in {"publish_raw", "enqueue_failed"}
    /\ \E published \in BOOLEAN :
         inner_recv_pc' = [inner_recv_pc EXCEPT ![i] =
                              IF published THEN "check_stop" ELSE "panicked"]
    /\ UNCHANGED <<should_stop, workerVars, mgrVars, taskVars, inner_send_pc, chanVars>>

\* receive task: if should_stop.load() { break }; task::yield_now().await
InnerRecvCheckStop(i) ==
    /\ inner_recv_pc[i] = "check_stop"
    /\ inner_recv_pc' = [inner_recv_pc EXCEPT ![i] = IF should_stop THEN "exit" ELSE "loop"]
    /\ UNCHANGED <<should_stop, workerVars, mgrVars, taskVars, inner_send_pc, chanVars>>

InnerRecv(i) == InnerRecvLoop(i) \/ InnerRecvCall(i) \/ InnerRecvDeliver(i)
                \/ InnerRecvPublishRaw(i)
                \/ InnerRecvCheckStop(i)

\* stop_task: self.should_stop.store(true, Ordering::SeqCst)
ConnStopStore ==
    /\ mgr_pc = "idle"
    /\ Cardinality({k \in 1..Len(mgr_calls) : IsStop(mgr_calls[k])}) < MaxStops
    /\ should_stop' = TRUE
    /\ mgr_pc' = "stop_sleep"
    /\ UNCHANGED <<workerVars, mgr_calls, task_handles, handles, join_results,
                   taskVars, innerVars, chanVars>>

\* stop_task: time::sleep(100 ms); let handles = std::mem::take(&mut self.task_handles)
ConnStopTake ==
    /\ mgr_pc = "stop_sleep"
    /\ handles' = task_handles
    /\ task_handles' = <<>>
    /\ mgr_pc' = "stop_join"
    /\ UNCHANGED <<should_stop, workerVars, mgr_calls, join_results,
                   taskVars, innerVars, chanVars>>

\* variant: the first JoinError is returned with `?`, the remaining handles are dropped
ConnStopJoin_Propagate ==
    /\ mgr_pc = "stop_join"
    /\ handles # <<>>
    /\ task_pc[Head(handles)] \in Completed
    /\ IF task_pc[Head(handles)] = "done"
       THEN /\ join_results' = Append(join_results, <<Head(handles), "Ok">>)
            /\ handles' = Tail(handles)
            /\ UNCHANGED <<mgr_pc, mgr_calls>>
       ELSE /\ join_results' = Append(join_results, <<Head(handles), "JoinError">>)
            /\ handles' = <<>>
            /\ mgr_pc' = "idle"
            /\ mgr_calls' = Append(mgr_calls, <<"stop_task", "TaskJoinError">>)
    /\ UNCHANGED <<should_stop, workerVars, task_handles, taskVars, innerVars, chanVars>>

\* variant: the handles are dropped without being awaited
ConnStopJoin_Detach ==
    /\ mgr_pc = "stop_join"
    /\ handles # <<>>
    /\ join_results' = Append(join_results, <<Head(handles), "Ok">>)
    /\ handles' = Tail(handles)
    /\ UNCHANGED <<should_stop, workerVars, mgr_pc, mgr_calls, task_handles,
                   taskVars, innerVars, chanVars>>

\* stop_task: for handle in handles { if let Err(e) = handle.await { error!(..) } }
ConnStopJoin ==
    /\ mgr_pc = "stop_join"
    /\ handles # <<>>
    /\ task_pc[Head(handles)] \in Completed
    /\ join_results' = Append(join_results,
                              <<Head(handles),
                                IF task_pc[Head(handles)] = "done" THEN "Ok" ELSE "JoinError">>)
    /\ handles' = Tail(handles)
    /\ UNCHANGED <<should_stop, workerVars, mgr_pc, mgr_calls, task_handles,
                   taskVars, innerVars, chanVars>>

\* stop_task: Ok(())
ConnStopReturn ==
    /\ mgr_pc = "stop_join"
    /\ handles = <<>>
    /\ mgr_pc' = "idle"
    /\ mgr_calls' = Append(mgr_calls, <<"stop_task", "Ok">>)
    /\ UNCHANGED <<should_stop, workerVars, task_handles, handles, join_results,
                   taskVars, innerVars, chanVars>>

\* send: Ok(()) when stopped, else self.transmit_channels.0.send(msg.clone())
ConnSend ==
    /\ mgr_pc = "idle"
    /\ ~should_stop
    /\ Len(transmit_channel) < MaxQueue
    /\ transmit_channel' = Append(transmit_channel, RequestStreamMsg)
    /\ UNCHANGED <<should_stop, workerVars, mgrVars, taskVars, innerVars, recv_channel>>

\* recv: empty when stopped, else every message try_recv returns
ConnRecv ==
    /\ mgr_pc = "idle"
    /\ ~should_stop
    /\ recv_channel # <<>>
    /\ recv_channel' = <<>>
    /\ UNCHANGED <<should_stop, workerVars, mgrVars, taskVars, innerVars, transmit_channel>>

\* ---------------------------------------------------------------- other bus clients
\* WSMessage::RedisPublish(channel, message) => conn.publish(&channel, message)
ClientPublish ==
    /\ client_count < MaxClientPublish
    /\ \E topic \in ClientTopics, payload \in ClientPayloads :
         BusPublish(topic, payload)
    /\ client_count' = client_count + 1
    /\ UNCHANGED <<should_stop, vehicle_owner, vehicle_waiters, recv_pc, recv_msg,
                   send_pc, send_msg,
                   hb_pc, hb_seen, hb_published, rs_pc, rs_seen, rs_count,
                   recv_hb_after_sub, healthVars, checkVars, connVars, labVars, xfVars, wireVars>>

\* ---------------------------------------------------------------- health monitor
\* EkfStatusFlags bit values (MAVLink EKF_STATUS_FLAGS)
EKF_ATTITUDE == 1
EKF_VELOCITY_HORIZ == 2
EKF_POS_HORIZ_REL == 8
EKF_POS_HORIZ_ABS == 16
EKF_POS_VERT_ABS == 32

\* largest EKF flags value fed to the monitor
MaxEkfFlags == 63
\* time passes in steps of this many milliseconds
TickMs == 250

CheckIntervalMs == 500
UpdateIntervalMs == 3000
CommErrorLimit == 100
BatteryLimit == 20
BatteryUnreported == -1

\* SYS_STATUS_DATA values fed to the monitor: (errors_comm, battery_remaining)
SysStatusValues == [errors_comm : {99, 100}, battery_remaining : {-1, 20, 21}]
                   \cup {[errors_comm |-> 150, battery_remaining |-> 80]}
\* EKF_STATUS_REPORT_DATA values fed to the monitor: every combination of the flag bits,
\* leaving out the vertical-velocity bit (4), which no check of the monitor reads
EkfStatusValues == [flags : {f \in 0..MaxEkfFlags : (f \div 4) % 2 = 0}]

SysStatusTopic == "channels/ardulink/recv/SYS_STATUS"
EkfStatusTopic == "channels/ardulink/recv/EKF_STATUS_REPORT"

SysStatusMsg(data) == [tag |-> "SYS_STATUS", data |-> data]
EkfStatusMsg(data) == [tag |-> "EKF_STATUS_REPORT", data |-> data]

\* payloads that can show up on a subscribed channel: every value of the channel's own
\* variant, one message of the other variant, and one that is not a MavMessage document
HealthPayloads(topic) ==
    (IF topic = SysStatusTopic
     THEN {[json |-> TRUE, doc |-> SysStatusMsg(d)] : d \in SysStatusValues}
          \cup {[json |-> TRUE, doc |-> EkfStatusMsg([flags |-> MaxEkfFlags])]}
     ELSE {[json |-> TRUE, doc |-> EkfStatusMsg(d)] : d \in EkfStatusValues}
          \cup {[json |-> TRUE, doc |-> SysStatusMsg([errors_comm |-> 0, battery_remaining |-> 80])]})
    \cup {[json |-> FALSE, doc |-> [tag |-> "", data |-> <<>>]]}

\* a & b on the flag bitsets
RECURSIVE BitAnd(_, _)
BitAnd(a, b) ==
    IF a = 0 \/ b = 0 THEN 0
    ELSE (IF a % 2 = 1 /\ b % 2 = 1 THEN 1 ELSE 0) + 2 * BitAnd(a \div 2, b \div 2)

\* a | b on disjoint single-bit constants
BitOr(a, b) == a + b - BitAnd(a, b)

\* Vec<String>::join(sep)
RECURSIVE Join(_, _)
Join(parts, sep) ==
    IF parts = <<>> THEN ""
    ELSE IF Len(parts) = 1 THEN parts[1]
    ELSE parts[1] \o sep \o Join(Tail(parts), sep)

\* {:?} of the flag bitset, one rendering per value
FlagsDebug(flags) == "EkfStatusFlags(" \o ToString(flags) \o ")"

\* check_system_health: (overall_healthy, reason)
comms_healthy_Unchecked(sys_status) == TRUE
comms_healthy_Inclusive(sys_status) == sys_status.errors_comm <= CommErrorLimit
comms_healthy(sys_status) == sys_status.errors_comm < CommErrorLimit
battery_healthy(sys_status) ==
    sys_status.battery_remaining = BatteryUnreported \/ sys_status.battery_remaining > BatteryLimit

check_system_health_FirstReasonOnly(sys_status) ==
    LET overall_healthy == comms_healthy(sys_status) /\ battery_healthy(sys_status)
        reasons == IF ~comms_healthy(sys_status)
                   THEN <<"Comm errors: " \o ToString(sys_status.errors_comm)>>
                   ELSE <<"Battery low: " \o ToString(sys_status.battery_remaining) \o "%">>
    IN  <<overall_healthy,
          IF ~overall_healthy THEN "System unhealthy: " \o Join(reasons, ", ")
          ELSE "System status OK">>

check_system_health(sys_status) ==
    LET overall_healthy == comms_healthy(sys_status) /\ battery_healthy(sys_status)
        reasons == (IF ~comms_healthy(sys_status)
                    THEN <<"Comm errors: " \o ToString(sys_status.errors_comm)>> ELSE <<>>)
                   \o (IF ~battery_healthy(sys_status)
                       THEN <<"Battery low: " \o ToString(sys_status.battery_remaining) \o "%">>
                       ELSE <<>>)
    IN  <<overall_healthy,
          IF ~overall_healthy THEN "System unhealthy: " \o Join(reasons, ", ")
          ELSE "System status OK">>

\* check_ekf_attitude_velocity: (ok, reason)
check_ekf_attitude_velocity(ekf_status) ==
    LET required_flags == BitOr(EKF_ATTITUDE, EKF_VELOCITY_HORIZ)
        ok == BitAnd(ekf_status.flags, required_flags) = required_flags
    IN  <<ok,
          IF ok THEN "EKF attitude/velocity OK"
          ELSE "EKF attitude/velocity not ready (Flags: " \o FlagsDebug(ekf_status.flags) \o ")">>

\* check_ekf_position: (ok, reason)
check_ekf_position_BothHoriz(ekf_status) ==
    LET horiz_pos_flags == BitOr(EKF_POS_HORIZ_REL, EKF_POS_HORIZ_ABS)
        has_horiz_pos == BitAnd(ekf_status.flags, horiz_pos_flags) = horiz_pos_flags
        has_vert_pos == BitAnd(ekf_status.flags, EKF_POS_VERT_ABS) > 0
        ok == has_horiz_pos /\ has_vert_pos
    IN  <<ok,
          IF ok THEN "EKF position lock OK"
          ELSE "EKF position lock not ready (Flags: " \o FlagsDebug(ekf_status.flags) \o ")">>

check_ekf_position(ekf_status) ==
    LET horiz_pos_flags == BitOr(EKF_POS_HORIZ_REL, EKF_POS_HORIZ_ABS)
        has_horiz_pos == BitAnd(ekf_status.flags, horiz_pos_flags) > 0
        has_vert_pos == BitAnd(ekf_status.flags, EKF_POS_VERT_ABS) > 0
        ok == has_horiz_pos /\ has_vert_pos
    IN  <<ok,
          IF ok THEN "EKF position lock OK"
          ELSE "EKF position lock not ready (Flags: " \o FlagsDebug(ekf_status.flags) \o ")">>

\* Option<T>: None is <<>>, Some(data) is <<data>>
None == <<>>
Some(data) == <<data>>

\* if !self.has_sys_status_data || !self.has_ekf_data
awaiting_data_BothMissing(has_sys, has_ekf) == ~has_sys /\ ~has_ekf
awaiting_data(has_sys, has_ekf) == ~has_sys \/ ~has_ekf

\* update_health_status: (HealthStatus, reason) from the stored fields
\* (the system_healthy / ekf_*_ok fields it also writes are never read)
update_health_status(has_sys, sys, has_ekf, ekf) ==
    IF awaiting_data(has_sys, has_ekf)
    THEN <<"AWAITING_DATA",
           Join((IF ~has_sys THEN <<"Waiting for SYS_STATUS">> ELSE <<>>)
                \o (IF ~has_ekf THEN <<"Waiting for EKF_STATUS_REPORT">> ELSE <<>>), "; ")>>
    ELSE IF sys = None
    THEN <<"AWAITING_DATA", "Missing SYS_STATUS data">>
    ELSE IF ~check_system_health(sys[1])[1]
    THEN <<"UNHEALTHY", Join(<<check_system_health(sys[1])[2]>>, "; ")>>
    ELSE IF ekf = None
    THEN <<"AWAITING_DATA", "Missing EKF_STATUS data">>
    ELSE IF ~check_ekf_attitude_velocity(ekf[1])[1]
    THEN <<"AWAITING_LOCK",
           Join(<<"System OK", check_ekf_attitude_velocity(ekf[1])[2]>>, "; ")>>
    ELSE IF ~check_ekf_position(ekf[1])[1]
    THEN <<"AWAITING_LOCK",
           Join(<<"System OK", "EKF Att/Vel OK", check_ekf_position(ekf[1])[2]>>, "; ")>>
    ELSE <<"HEALTHY", "System healthy and EKF locked">>

\* health_state.last_sys_status = Some(data) / health_state.last_ekf_status = Some(data)
store_data_KeepFirst(old, data) == IF old = None THEN Some(data) ELSE old
store_data(old, data) == Some(data)

\* should_update: status or reason changed, or update_interval elapsed since the last update
should_update_ChangeOnly(new, status, reason, elapsed) ==
    new[1] # status \/ new[2] # reason

should_update(new, status, reason, elapsed) ==
    new[1] # status \/ new[2] # reason \/ elapsed >= UpdateIntervalMs

\* the tail shared by both select! branches: store and publish when should_update;
\* elapsed is last_update_time.elapsed() at the time the branch runs
HealthEvaluate(has_sys, sys, has_ekf, ekf, elapsed) ==
    LET new == update_health_status(has_sys, sys, has_ekf, ekf)
    IN  IF should_update(new, current_status, last_reason, elapsed)
        THEN /\ current_status' = new[1]
             /\ last_reason' = new[2]
             /\ since_update' = 0
             /\ health_published' = new
             /\ health_emitted' = TRUE
        ELSE /\ since_update' = elapsed
             /\ health_emitted' = FALSE
             /\ UNCHANGED <<current_status, last_reason, health_published>>

\* longest backlog of a wait_for_message subscription
MaxArmStream == 2

\* serde_json::to_string(&health_state.current_status): the variant name as a JSON string
to_string(status) == <<"\"", status, "\"">>

\* redis.client.publish("ardulink/health/status", &status_json) as the subscription of
\* wait_for_message sees it: a status published in this step joins its backlog
StatusBus ==
    LET heard == arm_pc = "waiting" /\ ~arm_closed /\ health_emitted'
    IN  /\ heard => Len(arm_stream) < MaxArmStream
        /\ arm_stream' = IF heard THEN Append(arm_stream, to_string(health_published'[1]))
                          ELSE arm_stream
        /\ UNCHANGED <<scenarioVars, quadVars>>

\* ArdulinkTask_Health::new(), publish initial status, subscribe, enter the loop
HealthSpawn ==
    /\ health_pc = "off"
    /\ health_pc' = IF should_stop THEN "exit" ELSE "select"
    /\ health_published' = <<current_status, last_reason>>
    /\ health_emitted' = TRUE
    /\ StatusBus
    /\ UNCHANGED <<linkVars, checkVars, connVars, xfVars, wireVars, current_status, last_reason,
                   has_sys_status_data, last_sys_status,
                   has_ekf_data, last_ekf_status, since_check, since_update,
                   seen_sys_status, seen_ekf_status, stale_replaced, health_stream>>

\* variant: the has_*_data flag of a channel is set by whatever arrives on the channel
HealthDeliver_FlagOnArrival(topic, payload) ==
    LET sysMatch == topic = SysStatusTopic /\ payload.json /\ payload.doc.tag = "SYS_STATUS"
        ekfMatch == topic = EkfStatusTopic /\ payload.json
                    /\ payload.doc.tag = "EKF_STATUS_REPORT"
        has_sys == has_sys_status_data \/ (topic = SysStatusTopic)
        sys == IF sysMatch THEN store_data(last_sys_status, payload.doc.data)
               ELSE last_sys_status
        has_ekf == has_ekf_data \/ (topic = EkfStatusTopic)
        ekf == IF ekfMatch THEN store_data(last_ekf_status, payload.doc.data)
               ELSE last_ekf_status
    IN  /\ has_sys_status_data' = has_sys
        /\ last_sys_status' = sys
        /\ has_ekf_data' = has_ekf
        /\ last_ekf_status' = ekf
        /\ HealthEvaluate(has_sys, sys, has_ekf, ekf, since_update)
        /\ seen_sys_status' = IF sysMatch THEN Some(payload.doc.data) ELSE seen_sys_status
        /\ seen_ekf_status' = IF ekfMatch THEN Some(payload.doc.data) ELSE seen_ekf_status
        /\ stale_replaced' =
             \/ stale_replaced
             \/ sysMatch /\ has_sys_status_data /\ last_sys_status # Some(payload.doc.data)
             \/ ekfMatch /\ has_ekf_data /\ last_ekf_status # Some(payload.doc.data)

\* variant: a payload that does not decode to the channel's variant resets the channel's flag
HealthDeliver_ForeignResets(topic, payload) ==
    LET sysMatch == topic = SysStatusTopic /\ payload.json /\ payload.doc.tag = "SYS_STATUS"
        ekfMatch == topic = EkfStatusTopic /\ payload.json
                    /\ payload.doc.tag = "EKF_STATUS_REPORT"
        has_sys == IF topic = SysStatusTopic THEN sysMatch ELSE has_sys_status_data
        sys == IF sysMatch THEN store_data(last_sys_status, payload.doc.data)
               ELSE last_sys_status
        has_ekf == IF topic = EkfStatusTopic THEN ekfMatch ELSE has_ekf_data
        ekf == IF ekfMatch THEN store_data(last_ekf_status, payload.doc.data)
               ELSE last_ekf_status
    IN  /\ has_sys_status_data' = has_sys
        /\ last_sys_status' = sys
        /\ has_ekf_data' = has_ekf
        /\ last_ekf_status' = ekf
        /\ HealthEvaluate(has_sys, sys, has_ekf, ekf, since_update)
        /\ seen_sys_status' = IF sysMatch THEN Some(payload.doc.data) ELSE seen_sys_status
        /\ seen_ekf_status' = IF ekfMatch THEN Some(payload.doc.data) ELSE seen_ekf_status
        /\ stale_replaced' =
             \/ stale_replaced
             \/ sysMatch /\ has_sys_status_data /\ last_sys_status # Some(payload.doc.data)
             \/ ekfMatch /\ has_ekf_data /\ last_ekf_status # Some(payload.doc.data)

\* the message branch for one (channel, payload): match channel_name, from_str, store, then
\* update_health_status and the publish rule
HealthDeliver(topic, payload) ==
    LET sysMatch == topic = SysStatusTopic /\ payload.json /\ payload.doc.tag = "SYS_STATUS"
        ekfMatch == topic = EkfStatusTopic /\ payload.json
                    /\ payload.doc.tag = "EKF_STATUS_REPORT"
        has_sys == has_sys_status_data \/ sysMatch
        sys == IF sysMatch THEN store_data(last_sys_status, payload.doc.data)
               ELSE last_sys_status
        has_ekf == has_ekf_data \/ ekfMatch
        ekf == IF ekfMatch THEN store_data(last_ekf_status, payload.doc.data)
               ELSE last_ekf_status
    IN  /\ has_sys_status_data' = has_sys
        /\ last_sys_status' = sys
        /\ has_ekf_data' = has_ekf
        /\ last_ekf_status' = ekf
        /\ HealthEvaluate(has_sys, sys, has_ekf, ekf, since_update)
        /\ seen_sys_status' = IF sysMatch THEN Some(payload.doc.data) ELSE seen_sys_status
        /\ seen_ekf_status' = IF ekfMatch THEN Some(payload.doc.data) ELSE seen_ekf_status
        /\ stale_replaced' =
             \/ stale_replaced
             \/ sysMatch /\ has_sys_status_data /\ last_sys_status # Some(payload.doc.data)
             \/ ekfMatch /\ has_ekf_data /\ last_ekf_status # Some(payload.doc.data)

\* select! branch: Some(msg) = redis_stream.next(), the bus carrying payloads[topic]
HealthReceive(payloads) ==
    /\ health_pc = "select"
    /\ health_stream = "open"
    /\ \E topic \in {SysStatusTopic, EkfStatusTopic} : \E payload \in payloads[topic] :
         HealthDeliver(topic, payload)
    /\ since_check' = 0
    /\ health_pc' = IF should_stop THEN "exit" ELSE "select"
    /\ StatusBus
    /\ UNCHANGED <<linkVars, checkVars, connVars, xfVars, wireVars, health_stream>>

HealthOnMessage ==
    HealthReceive([topic \in {SysStatusTopic, EkfStatusTopic} |-> HealthPayloads(topic)])

Min(a, b) == IF a < b THEN a ELSE b

\* select! branch: sleep_until(last_check_time + check_interval) completes, TickMs after the
\* previous instant; last_check_time is not touched, so the deadline stays in the past
HealthPeriodicCheck_Idle ==
    /\ health_pc = "select"
    /\ since_check + TickMs >= CheckIntervalMs
    /\ since_check' = CheckIntervalMs
    /\ health_stream' = IF health_stream = "open" THEN "open" ELSE "closed_ran"
    /\ since_update' = Min(since_update + TickMs, UpdateIntervalMs)
    /\ health_emitted' = FALSE
    /\ health_pc' = IF should_stop THEN "exit" ELSE "select"
    /\ UNCHANGED <<linkVars, checkVars, connVars, labVars, xfVars, wireVars, current_status, last_reason, health_published,
                   has_sys_status_data, last_sys_status, has_ekf_data, last_ekf_status,
                   seen_sys_status, seen_ekf_status, stale_replaced>>

\* variant: the select! has no timer branch: the monitor waits on its stream alone
HealthPeriodicCheck_NoTimer ==
    /\ FALSE
    /\ UNCHANGED vars

HealthPeriodicCheck ==
    /\ health_pc = "select"
    /\ since_check + TickMs >= CheckIntervalMs
    /\ since_check' = CheckIntervalMs
    /\ health_stream' = IF health_stream = "open" THEN "open" ELSE "closed_ran"
    /\ HealthEvaluate(has_sys_status_data, last_sys_status, has_ekf_data, last_ekf_status,
                      Min(since_update + TickMs, UpdateIntervalMs))
    /\ health_pc' = IF should_stop THEN "exit" ELSE "select"
    /\ StatusBus
    /\ UNCHANGED <<linkVars, checkVars, connVars, xfVars, wireVars, has_sys_status_data, last_sys_status,
                   has_ekf_data, last_ekf_status,
                   seen_sys_status, seen_ekf_status, stale_replaced>>

\* select!: the bus has ended the subscription stream: redis_stream.next() returns None
\* from now on, which the pattern Some(msg) of the branch does not match
HealthStreamEnd ==
    /\ health_pc = "select"
    /\ health_stream = "open"
    /\ health_stream' = "closed"
    /\ UNCHANGED <<linkVars, checkVars, connVars, labVars, xfVars, wireVars,
                   health_pc, current_status, last_reason,
                   has_sys_status_data, last_sys_status, has_ekf_data, last_ekf_status,
                   since_check, since_update, health_published, health_emitted,
                   seen_sys_status, seen_ekf_status, stale_replaced>>

\* TickMs pass while the check timer is still pending; the elapsed time compared with
\* update_interval saturates there
HealthTick ==
    /\ health_pc = "select"
    /\ since_check + TickMs < CheckIntervalMs
    /\ since_check' = since_check + TickMs
    /\ since_update' = Min(since_update + TickMs, UpdateIntervalMs)
    /\ UNCHANGED <<linkVars, checkVars, connVars, labVars, xfVars, wireVars, health_pc, current_status, last_reason,
                   has_sys_status_data, last_sys_status, has_ekf_data, last_ekf_status,
                   health_published, health_emitted,
                   seen_sys_status, seen_ekf_status, stale_replaced, health_stream>>

\* let (healthy, reason) = Self::check_system_health(sys_status)
CheckSystemHealth ==
    /\ chk_pc = "call"
    /\ chk_result' = check_system_health(chk_sys_status)
    /\ chk_pc' = "done"
    /\ UNCHANGED <<chk_sys_status, linkVars, healthVars, wireVars, connVars, labVars, xfVars>>

\* ---------------------------------------------------------------- transform pipeline
\* trait Transformer: get_topic(), get_out() and transform(). Two functions stand for the
\* implementations: "echo" accepts every payload, "parse" fails on a payload that is not
\* JSON, as StatusTextTransformer does.
XfInTopics == {"channels/ardulink/recv/STATUSTEXT", "channels/ardulink/recv/ATTITUDE"}
XfOutTopics == {"channels/ardulink/STATUSTEXT_STRING", "channels/ardulink/ATTITUDE_STRING"}
XfKinds == {"echo", "parse"}
\* the implementations a registry is drawn from: two share an input topic, two share an
\* output topic, and each function occurs on each input topic
Transformers ==
    {t \in [topic : XfInTopics, out : XfOutTopics, kind : XfKinds] :
        (t.kind = "parse") = (t.out = "channels/ardulink/STATUSTEXT_STRING")}
Registries == UNION {[1..n -> Transformers] : n \in 0..MaxTransformers}
XfPayloads == {to_json(AttitudeMsg), Garbage}

XfOk(text) == [ok |-> TRUE, text |-> text]
XfErr == [ok |-> FALSE, text |-> Garbage]

\* transformer.transform(payload)
transform(t, payload) ==
    IF t.kind = "echo" THEN XfOk(payload)
    ELSE IF payload.json THEN XfOk(to_json([text |-> payload.doc.tag, source |-> "MAVLINK"]))
    ELSE XfErr

\* what the bus does with one publish: publish_con.get_connection()? fails, con.publish
\* returns Err, or the message is published
BusOutcomes == {"published", "publish_error", "connection_error"}

\* topics collected from get_topic(); an empty registry ends run() with Ok(()), else the
\* worker subscribes to them
XfRun ==
    /\ xf_pc = "start"
    /\ xf_pc' = IF transformers = <<>> THEN "exit" ELSE "loop"
    /\ UNCHANGED <<linkVars, healthVars, checkVars, wireVars, connVars, labVars,
                   transformers, xf_errors, xf_stream,
                   xf_msg, xf_index, xf_evaluated, xf_published, xf_count>>

\* while !self.should_stop.load()
XfLoop ==
    /\ xf_pc = "loop"
    /\ xf_pc' = IF should_stop THEN "exit" ELSE "select"
    /\ UNCHANGED <<linkVars, healthVars, checkVars, wireVars, connVars, labVars,
                   transformers, xf_errors, xf_stream,
                   xf_msg, xf_index, xf_evaluated, xf_published, xf_count>>

\* select!: Some(msg) = stream.next(): a message on one of the subscribed topics
XfOnMessage ==
    /\ xf_pc = "select"
    /\ xf_stream = "open"
    /\ xf_count < MaxXfMessages
    /\ \E channel \in {transformers[k].topic : k \in 1..Len(transformers)},
          payload \in XfPayloads :
         xf_msg' = <<channel, payload>>
    /\ xf_index' = 1
    /\ xf_evaluated' = <<>>
    /\ xf_published' = <<>>
    /\ xf_count' = xf_count + 1
    /\ xf_pc' = "for"
    /\ UNCHANGED <<linkVars, healthVars, checkVars, wireVars, connVars, labVars,
                   transformers, xf_errors, xf_stream>>

\* variant: a transform error is returned with `?` and ends run()
XfTransform_ErrorEndsRun ==
    /\ xf_pc = "for"
    /\ xf_index <= Len(transformers)
    /\ LET t == transformers[xf_index]
           result == transform(t, xf_msg[2])
       IN  IF t.topic # xf_msg[1]
           THEN /\ xf_index' = xf_index + 1
                /\ UNCHANGED <<xf_pc, xf_evaluated, xf_published, xf_errors>>
           ELSE /\ xf_evaluated' = Append(xf_evaluated, xf_index)
                /\ xf_errors' = IF result.ok THEN xf_errors ELSE xf_errors \cup {xf_index}
                /\ IF ~result.ok
                   THEN /\ xf_pc' = "failed"
                        /\ UNCHANGED <<xf_index, xf_published>>
                   ELSE \E outcome \in BusOutcomes :
                          /\ xf_published' = Append(xf_published,
                                                    <<xf_index, t.out, result.text, outcome>>)
                          /\ IF outcome = "connection_error"
                             THEN xf_pc' = "failed" /\ UNCHANGED xf_index
                             ELSE xf_index' = xf_index + 1 /\ UNCHANGED xf_pc
    /\ UNCHANGED <<linkVars, healthVars, checkVars, wireVars, connVars, labVars,
                   transformers, xf_stream, xf_msg, xf_count>>

\* variant: every registered transformer is run on every message, whatever its topic
XfTransform_Broadcast ==
    /\ xf_pc = "for"
    /\ xf_index <= Len(transformers)
    /\ LET t == transformers[xf_index]
           result == transform(t, xf_msg[2])
       IN  /\ xf_evaluated' = Append(xf_evaluated, xf_index)
           /\ xf_errors' = IF result.ok THEN xf_errors ELSE xf_errors \cup {xf_index}
           /\ IF ~result.ok
              THEN /\ xf_index' = xf_index + 1
                   /\ UNCHANGED <<xf_pc, xf_published>>
              ELSE \E outcome \in BusOutcomes :
                     /\ xf_published' = Append(xf_published,
                                               <<xf_index, t.out, result.text, outcome>>)
                     /\ IF outcome = "connection_error"
                        THEN xf_pc' = "failed" /\ UNCHANGED xf_index
                        ELSE xf_index' = xf_index + 1 /\ UNCHANGED xf_pc
    /\ UNCHANGED <<linkVars, healthVars, checkVars, wireVars, connVars, labVars,
                   transformers, xf_stream, xf_msg, xf_count>>

\* one turn of `for transformer in &self.transformers`
XfTransform ==
    /\ xf_pc = "for"
    /\ xf_index <= Len(transformers)
    /\ LET t == transformers[xf_index]
           result == transform(t, xf_msg[2])
       IN  IF t.topic # xf_msg[1]
           THEN /\ xf_index' = xf_index + 1
                /\ UNCHANGED <<xf_pc, xf_evaluated, xf_published, xf_errors>>
           ELSE /\ xf_evaluated' = Append(xf_evaluated, xf_index)
                /\ xf_errors' = IF result.ok THEN xf_errors ELSE xf_errors \cup {xf_index}
                /\ IF ~result.ok
                   THEN /\ xf_index' = xf_index + 1
                        /\ UNCHANGED <<xf_pc, xf_published>>
                   ELSE \E outcome \in BusOutcomes :
                          /\ xf_published' = Append(xf_published,
                                                    <<xf_index, t.out, result.text, outcome>>)
                          /\ IF outcome = "connection_error"
                             THEN xf_pc' = "failed" /\ UNCHANGED xf_index
                             ELSE xf_index' = xf_index + 1 /\ UNCHANGED xf_pc
    /\ UNCHANGED <<linkVars, healthVars, checkVars, wireVars, connVars, labVars,
                   transformers, xf_stream, xf_msg, xf_count>>

\* the for loop has gone through self.transformers: back to the while test
XfForEnd ==
    /\ xf_pc = "for"
    /\ xf_index > Len(transformers)
    /\ xf_pc' = "loop"
    /\ UNCHANGED <<linkVars, healthVars, checkVars, wireVars, connVars, labVars,
                   transformers, xf_errors, xf_stream,
                   xf_msg, xf_index, xf_evaluated, xf_published, xf_count>>

\* select!: the bus has ended the subscription stream: stream.next() returns None from
\* now on, which the pattern Some(msg) of the branch does not match
XfStreamEnd ==
    /\ xf_pc = "select"
    /\ xf_stream = "open"
    /\ xf_stream' = "closed"
    /\ UNCHANGED <<linkVars, healthVars, checkVars, wireVars, connVars, labVars,
                   transformers, xf_errors,
                   xf_pc, xf_msg, xf_index, xf_evaluated, xf_published, xf_count>>

\* select!: time::sleep(100 ms): if self.should_stop.load() { break }
XfTimer ==
    /\ xf_pc = "select"
    /\ xf_pc' = IF should_stop THEN "exit" ELSE "loop"
    /\ UNCHANGED <<linkVars, healthVars, checkVars, wireVars, connVars, labVars,
                   transformers, xf_errors, xf_stream,
                   xf_msg, xf_index, xf_evaluated, xf_published, xf_count>>

\* ---------------------------------------------------------------- arm scenario
\* ScenarioRunner.max_t, in tenths of a second
ArmMaxT == 12
\* match t { 1.0 => ... }, in tenths of a second
ArmAtT == 10

\* MavMessage::COMMAND_LONG with MAV_CMD_COMPONENT_ARM_DISARM, param1 1.0
ArmCommand == [tag |-> "COMMAND_LONG", mavtype |-> "", rate |-> 0]

\* serde_json::from_str::<String>(&payload): Ok for a JSON string literal
from_str_String(payload) ==
    IF Len(payload) = 3 /\ payload[1] = "\"" /\ payload[3] = "\""
    THEN Some(payload[2]) ELSE None

\* match from_str { Ok(parsed) => parsed, Err(_) => payload.clone() }
parsed_payload(payload) ==
    IF from_str_String(payload) # None THEN from_str_String(payload) ELSE payload

\* variant: value None, the first message is enough
ValueMatches_First(payload, expected_value) == TRUE

\* parsed_payload.trim().to_ascii_uppercase() == expected_value.trim().to_ascii_uppercase();
\* the status names are upper case without blanks, which both calls leave as they are
ValueMatches(payload, expected_value) == parsed_payload(payload) = <<expected_value>>

\* ScenarioRunner::run: while self.current_t < self.max_t { scene.run(current_t, redis) ... };
\* ScenarioLabArm::run: if health_verified.is_none() { wait_for_message(...) }, which
\* subscribes first
ArmLoop ==
    /\ arm_pc = "loop"
    /\ IF current_t >= ArmMaxT
         THEN /\ arm_pc' = "finished"
              /\ UNCHANGED <<arm_stream, arm_closed>>
         ELSE IF health_verified # None
              THEN /\ arm_pc' = "match"
                   /\ UNCHANGED <<arm_stream, arm_closed>>
              ELSE \E subscribed \in BOOLEAN :
                     /\ arm_pc' = IF subscribed THEN "waiting" ELSE "failed"
                     /\ arm_stream' = <<>>
                     /\ arm_closed' = FALSE
    /\ UNCHANGED <<linkVars, healthVars, checkVars, wireVars, connVars, xfVars, quadVars,
                   current_t, health_verified, arm_observed, arm_sent>>

\* wait_for_message: match stream.next().await { Some(msg) => compare, None => Err };
\* on Ok the caller stores health_verified = Some(t)
ArmWaitNext ==
    /\ arm_pc = "waiting"
    /\ IF arm_stream # <<>>
         THEN LET payload == Head(arm_stream)
              IN  /\ arm_observed' = arm_observed \cup {payload}
                  /\ IF ValueMatches(payload, "HEALTHY")
                       THEN /\ health_verified' = Some(current_t)
                            /\ arm_pc' = "match"
                            /\ arm_stream' = <<>>
                       ELSE /\ arm_stream' = Tail(arm_stream)
                            /\ UNCHANGED <<health_verified, arm_pc>>
         ELSE /\ arm_closed
              /\ arm_pc' = "failed"
              /\ UNCHANGED <<arm_stream, arm_observed, health_verified>>
    /\ UNCHANGED <<linkVars, healthVars, checkVars, wireVars, connVars, xfVars, quadVars,
                   current_t, arm_closed, arm_sent>>

\* the bus ends the subscription of wait_for_message
ArmStreamEnd ==
    /\ arm_pc = "waiting"
    /\ ~arm_closed
    /\ arm_closed' = TRUE
    /\ UNCHANGED <<linkVars, healthVars, checkVars, wireVars, connVars, xfVars, quadVars,
                   arm_pc, current_t, health_verified, arm_stream, arm_observed,
                   arm_sent>>

\* let t = t - health_verified.unwrap(); match t { 1.0 => publish_mavlink_message(...)?, _ => {} }
ArmMatch ==
    /\ arm_pc = "match"
    /\ IF current_t - health_verified[1] = ArmAtT
         THEN \E published \in BOOLEAN :
                IF published
                THEN /\ BusPublish(SendTopic, to_json(ArmCommand))
                     /\ arm_sent' = arm_sent + 1
                     /\ arm_pc' = "sleep"
                ELSE /\ arm_pc' = "failed"
                     /\ UNCHANGED <<send_inbox, hb_inbox, rs_inbox, arm_sent>>
         ELSE /\ arm_pc' = "sleep"
              /\ UNCHANGED <<send_inbox, hb_inbox, rs_inbox, arm_sent>>
    /\ UNCHANGED <<should_stop, vehicle_owner, vehicle_waiters, recv_pc, recv_msg,
                   send_pc, send_msg, hb_pc, hb_seen, hb_published, rs_pc, rs_seen, rs_count,
                   recv_hb_after_sub, client_count,
                   healthVars, checkVars, wireVars, connVars, xfVars, quadVars,
                   current_t, health_verified, arm_stream, arm_closed, arm_observed>>

\* sleep(0.1 s), then current_t = the time since start_time rounded to a tenth: at least
\* a tenth later, and later by whatever the call took
ArmSleep ==
    /\ arm_pc = "sleep"
    /\ \E new_t \in (current_t + 1)..ArmMaxT : current_t' = new_t
    /\ arm_pc' = "loop"
    /\ UNCHANGED <<linkVars, healthVars, checkVars, wireVars, connVars, xfVars, quadVars,
                   health_verified, arm_stream, arm_closed, arm_observed, arm_sent>>

\* ---------------------------------------------------------------- gen2 link
\* capacity of the channel behind MavQueues
MavQueueCapacity == 2
\* commands the app pushes in a run
MaxAppCommands == 2

\* MavIO::build_request_stream
RequestStreamPacket == [tag |-> "REQUEST_DATA_STREAM", id |-> 0]

\* QuadAppCommand values the app pushes: the n-th command of a run
AppCommands(n) == {[cmd_type |-> "MavlinkRaw", msg |-> [tag |-> "COMMAND_LONG", id |-> n]],
                   [cmd_type |-> "QuadGuidedArm", msg |-> NoMsg]}

\* MavIO::start: mavlink::connect(...)?, set_protocol_version, send_request_stream()?,
\* which passes the packet to MavQueues::send
QuadIoStart ==
    /\ io_pc = "start"
    /\ \E connected \in BOOLEAN :
         IF connected
         THEN /\ Len(mav_queue) < MavQueueCapacity
              /\ mav_queue' = Append(mav_queue, RequestStreamPacket)
              /\ mav_enqueued' = Append(mav_enqueued, RequestStreamPacket)
              /\ io_pc' = "tick_send"
         ELSE /\ io_pc' = "failed"
              /\ UNCHANGED <<mav_queue, mav_enqueued>>
    /\ UNCHANGED <<linkVars, healthVars, checkVars, wireVars, connVars, xfVars, armVars,
                   io_msg, tasks_pc, commands, app_count, mav_sent, mav_processed>>

\* MavIO::tick_send: match self.queues.recv() { Ok(Some(msg)) => msg, Ok(None) => return Ok(()) }
QuadIoTickSend ==
    /\ io_pc = "tick_send"
    /\ IF mav_queue = <<>>
         THEN /\ io_pc' = "tick_recv"
              /\ UNCHANGED <<mav_queue, io_msg>>
         ELSE /\ io_msg' = Head(mav_queue)
              /\ mav_queue' = Tail(mav_queue)
              /\ io_pc' = "send"
    /\ UNCHANGED <<linkVars, healthVars, checkVars, wireVars, connVars, xfVars, armVars,
                   tasks_pc, commands, app_count, mav_enqueued, mav_sent, mav_processed>>

\* MavIO::tick_send: mav_con.send(&MavHeader::default(), &commands)?
QuadIoSend ==
    /\ io_pc = "send"
    /\ \E written \in BOOLEAN :
         IF written
         THEN /\ mav_sent' = Append(mav_sent, io_msg)
              /\ io_pc' = "tick_recv"
         ELSE /\ io_pc' = "failed"
              /\ UNCHANGED mav_sent
    /\ io_msg' = NoMsg
    /\ UNCHANGED <<linkVars, healthVars, checkVars, wireVars, connVars, xfVars, armVars,
                   mav_queue, tasks_pc, commands, app_count, mav_enqueued, mav_processed>>

\* MavIO::tick_recv: a message read from the connection is logged, WouldBlock is Ok, any
\* other error ends start; then sleep(10 ms) and the next tick
QuadIoTickRecv ==
    /\ io_pc = "tick_recv"
    /\ \E result \in {"message", "would_block", "io_error", "parse_error"} :
         io_pc' = IF result \in {"message", "would_block"} THEN "tick_send" ELSE "failed"
    /\ UNCHANGED <<linkVars, healthVars, checkVars, wireVars, connVars, xfVars, armVars,
                   mav_queue, io_msg, tasks_pc, commands, app_count,
                   mav_enqueued, mav_sent, mav_processed>>

\* MavTasks::tick: let messages = self.queues.recv()?; if let Some(message) = messages
\* { self.process_message(message)? }; then commands.lock()
QuadTasksTick ==
    /\ tasks_pc = "tick"
    /\ IF mav_queue = <<>>
         THEN UNCHANGED <<mav_queue, mav_processed>>
         ELSE /\ mav_processed' = Append(mav_processed, Head(mav_queue))
              /\ mav_queue' = Tail(mav_queue)
    /\ tasks_pc' = "commands"
    /\ UNCHANGED <<linkVars, healthVars, checkVars, wireVars, connVars, xfVars, armVars,
                   io_pc, io_msg, commands, app_count, mav_enqueued, mav_sent>>

\* MavTasks::tick: while let Some(command) = commands.pop_front() { process_command },
\* where MavTaskSend::handle_app_command passes the message of a MavlinkRaw command to
\* MavQueues::send; then sleep(2 ms) and the next tick
QuadTasksCommand ==
    /\ tasks_pc = "commands"
    /\ IF commands = <<>>
         THEN /\ tasks_pc' = "tick"
              /\ UNCHANGED <<commands, mav_queue, mav_enqueued>>
         ELSE LET command == Head(commands)
              IN  /\ commands' = Tail(commands)
                  /\ IF command.cmd_type = "MavlinkRaw"
                       THEN /\ Len(mav_queue) < MavQueueCapacity
                            /\ mav_queue' = Append(mav_queue, command.msg)
                            /\ mav_enqueued' = Append(mav_enqueued, command.msg)
                       ELSE UNCHANGED <<mav_queue, mav_enqueued>>
                  /\ UNCHANGED tasks_pc
    /\ UNCHANGED <<linkVars, healthVars, checkVars, wireVars, connVars, xfVars, armVars,
                   io_pc, io_msg, app_count, mav_sent, mav_processed>>

\* the app: context.commands.lock().unwrap().push(QuadAppCommand::new(...)), which waits
\* while tick holds the lock
QuadAppPush ==
    /\ app_count < MaxAppCommands
    /\ tasks_pc # "commands"
    /\ \E command \in AppCommands(app_count + 1) : commands' = Append(commands, command)
    /\ app_count' = app_count + 1
    /\ UNCHANGED <<linkVars, healthVars, checkVars, wireVars, connVars, xfVars, armVars,
                   mav_queue, io_pc, io_msg, tasks_pc, mav_enqueued, mav_sent,
                   mav_processed>>

\* ---------------------------------------------------------------- specification
LinkInit ==
    /\ should_stop = FALSE
    /\ vehicle_owner = NoOwner
    /\ vehicle_waiters = <<>>
    /\ recv_pc = "loop" /\ recv_msg = NoMsg
    /\ send_pc = "init" /\ send_msg = NoMsg /\ send_inbox = <<>>
    /\ hb_pc = "init" /\ hb_inbox = <<>> /\ hb_seen = FALSE /\ hb_published = FALSE
    /\ rs_pc = "init" /\ rs_inbox = <<>> /\ rs_seen = FALSE /\ rs_count = 0
    /\ recv_hb_after_sub = FALSE
    /\ client_count = 0

HealthIdle ==
    /\ health_pc = "off"
    /\ current_status = "AWAITING_DATA"
    /\ last_reason = "Initializing health monitor"
    /\ has_sys_status_data = FALSE /\ last_sys_status = None
    /\ has_ekf_data = FALSE /\ last_ekf_status = None
    /\ since_check = 0 /\ since_update = 0
    /\ health_published = <<>> /\ health_emitted = FALSE
    /\ seen_sys_status = None /\ seen_ekf_status = None /\ stale_replaced = FALSE
    /\ health_stream = "open"

CheckIdle ==
    /\ chk_pc = "idle"
    /\ chk_sys_status = [errors_comm |-> 0, battery_remaining |-> BatteryUnreported]
    /\ chk_result = <<TRUE, "">>

WireIdle ==
    /\ link_frames = <<>> /\ recv_returned = <<>> /\ recv_published = <<>>

ConnIdle ==
    /\ mgr_pc = "idle" /\ mgr_calls = <<>>
    /\ task_handles = <<>> /\ handles = <<>> /\ join_results = <<>>
    /\ task_pc = [i \in TaskIds |-> "none"]
    /\ open_result = [i \in TaskIds |-> "none"]
    /\ task_errors = [i \in TaskIds |-> {}]
    /\ inner_send_pc = [i \in TaskIds |-> "none"]
    /\ inner_recv_pc = [i \in TaskIds |-> "none"]
    /\ transmit_channel = <<>> /\ recv_channel = <<>>

\* a run without the arm scenario
ArmAbsent ==
    /\ arm_pc = "absent" /\ current_t = 0 /\ health_verified = None
    /\ arm_stream = <<>> /\ arm_closed = FALSE
    /\ arm_observed = {} /\ arm_sent = 0

\* a run without the gen2 link
QuadAbsent ==
    /\ mav_queue = <<>>
    /\ io_pc = "absent" /\ io_msg = NoMsg
    /\ tasks_pc = "absent"
    /\ commands = <<>> /\ app_count = 0
    /\ mav_enqueued = <<>> /\ mav_sent = <<>> /\ mav_processed = <<>>

LabIdle == ArmAbsent /\ QuadAbsent

XfIdle ==
    /\ transformers = <<>>
    /\ xf_pc = "off" /\ xf_msg = <<>> /\ xf_index = 0
    /\ xf_evaluated = <<>> /\ xf_published = <<>> /\ xf_count = 0
    /\ xf_errors = {} /\ xf_stream = "open"

Init == LinkInit /\ HealthIdle /\ CheckIdle /\ WireIdle /\ ConnIdle /\ LabIdle /\ XfIdle

Next == RecvLoop \/ RecvLockGranted \/ RecvCall \/ RecvPublish \/ RecvSleep
        \/ RecvCheckStop \/ RecvYield
        \/ SendSubscribe \/ SendLoop \/ SendNext \/ SendLockGranted \/ SendWrite
        \/ SendCheckStop
        \/ HbSubscribe \/ HbWaitLoop \/ HbWaitNext \/ HbEmitLoop \/ HbEmitSleep
        \/ RsSubscribe \/ RsWaitLoop \/ RsWaitNext \/ RsPublish
        \/ StopTask \/ ClientPublish

Spec == Init /\ [][Next]_vars

\* the health monitor on its own, fed by the two inbound channels
NextHealth == HealthSpawn \/ HealthOnMessage \/ HealthPeriodicCheck \/ HealthTick
              \/ StopTask

SpecHealth == Init /\ [][NextHealth]_vars

\* check_system_health called once on any SYS_STATUS_DATA value: errors_comm is a u16,
\* battery_remaining an i8
CheckInputs == [errors_comm : (0..MaxErrorsComm) \cup {65535},
                battery_remaining : -128..127]

InitCheck ==
    /\ LinkInit /\ HealthIdle /\ WireIdle /\ ConnIdle /\ LabIdle /\ XfIdle
    /\ chk_pc = "call"
    /\ chk_sys_status \in CheckInputs
    /\ chk_result = <<TRUE, "">>

NextCheck == CheckSystemHealth

\* the receive worker on its own, reading a finite run of link results
InitRecv ==
    /\ LinkInit /\ HealthIdle /\ CheckIdle /\ ConnIdle /\ LabIdle /\ XfIdle
    /\ link_frames \in LinkScripts
    /\ recv_returned = <<>> /\ recv_published = <<>>

NextRecv == RecvLoop \/ RecvCallScripted \/ RecvPublishLogged \/ RecvSleep
            \/ RecvCheckStop \/ RecvYield \/ StopTask

SpecRecv == InitRecv /\ [][NextRecv]_vars

SpecCheck == InitCheck /\ [][NextCheck]_vars

\* the transform pipeline worker with any registry of transformers
XfStart ==
    /\ transformers \in Registries
    /\ xf_pc = "start" /\ xf_msg = <<>> /\ xf_index = 0
    /\ xf_evaluated = <<>> /\ xf_published = <<>> /\ xf_count = 0
    /\ xf_errors = {} /\ xf_stream = "open"

InitXf == LinkInit /\ HealthIdle /\ CheckIdle /\ WireIdle /\ ConnIdle /\ LabIdle /\ XfStart

\* a run in which ArdulinkTask_Health::spawn is not called
HealthAbsent ==
    /\ health_pc = "absent"
    /\ current_status = "AWAITING_DATA"
    /\ last_reason = "Initializing health monitor"
    /\ has_sys_status_data = FALSE /\ last_sys_status = None
    /\ has_ekf_data = FALSE /\ last_ekf_status = None
    /\ since_check = 0 /\ since_update = 0
    /\ health_published = <<>> /\ health_emitted = FALSE
    /\ seen_sys_status = None /\ seen_ekf_status = None /\ stale_replaced = FALSE
    /\ health_stream = "open"

NextXf == XfRun \/ XfLoop \/ XfOnMessage \/ XfTransform \/ XfForEnd \/ XfTimer
          \/ XfStreamEnd \/ StopTask

SpecXf == InitXf /\ [][NextXf]_vars

\* the workers that wait on a subscription stream and a timer, each on its own: a run has
\* either the health monitor or the transform pipeline, and the bus may end its stream
InitStreams ==
    \/ Init
    \/ /\ LinkInit /\ CheckIdle /\ WireIdle /\ ConnIdle /\ LabIdle
       /\ HealthAbsent
       /\ XfStart

NextStreams == NextHealth \/ HealthStreamEnd \/ NextXf

SpecStreams == InitStreams /\ [][NextStreams]_vars

\* a run in which ArdulinkTask_Heartbeat::spawn is not called
LinkNoHeartbeat ==
    /\ should_stop = FALSE
    /\ vehicle_owner = NoOwner
    /\ vehicle_waiters = <<>>
    /\ recv_pc = "loop" /\ recv_msg = NoMsg
    /\ send_pc = "init" /\ send_msg = NoMsg /\ send_inbox = <<>>
    /\ hb_pc = "absent" /\ hb_inbox = <<>> /\ hb_seen = FALSE /\ hb_published = FALSE
    /\ rs_pc = "init" /\ rs_inbox = <<>> /\ rs_seen = FALSE /\ rs_count = 0
    /\ recv_hb_after_sub = FALSE
    /\ client_count = 0

\* the three workers that wait on a timer, each on its own run: the health monitor, the
\* transform pipeline with at most one transformer, or the heartbeat worker with a client
\* that publishes to it
InitStop ==
    /\ CheckIdle /\ WireIdle /\ ConnIdle /\ LabIdle
    /\ \/ LinkNoHeartbeat /\ HealthIdle /\ XfIdle
       \/ LinkNoHeartbeat /\ HealthAbsent /\ XfStart /\ Len(transformers) <= 1
       \/ LinkInit /\ HealthAbsent /\ XfIdle

HealthTimer == HealthSpawn \/ HealthPeriodicCheck \/ HealthTick

\* bus traffic for the health monitor: a passing and a failing SYS_STATUS, an
\* EKF_STATUS_REPORT without and with lock, and the payloads that carry neither
FeedPayloads(topic) ==
    {payload \in HealthPayloads(topic) :
        \/ ~payload.json
        \/ payload.doc.tag # (IF topic = SysStatusTopic THEN "SYS_STATUS"
                                                        ELSE "EKF_STATUS_REPORT")
        \/ payload.doc.data \in {[errors_comm |-> 99, battery_remaining |-> 21],
                                  [errors_comm |-> 100, battery_remaining |-> 21],
                                  [flags |-> 0], [flags |-> 59]}}

HealthFeed ==
    HealthReceive([topic \in {SysStatusTopic, EkfStatusTopic} |-> FeedPayloads(topic)])

\* the health monitor on its own with that traffic
NextHealthFeed == HealthTimer \/ HealthFeed \/ StopTask

SpecHealthFeed == Init /\ [][NextHealthFeed]_vars

\* ScenarioRunner::new with ScenarioLabArm::default()
ArmStart ==
    /\ arm_pc = "loop" /\ current_t = 0 /\ health_verified = None
    /\ arm_stream = <<>> /\ arm_closed = FALSE
    /\ arm_observed = {} /\ arm_sent = 0

\* the arm scenario next to the health monitor it waits for
InitArm == /\ LinkInit /\ HealthIdle /\ CheckIdle /\ WireIdle /\ ConnIdle /\ XfIdle
           /\ QuadAbsent /\ ArmStart

NextArm == HealthTimer \/ HealthFeed
           \/ ArmLoop \/ ArmWaitNext \/ ArmStreamEnd \/ ArmMatch \/ ArmSleep

SpecArm == InitArm /\ [][NextArm]_vars

\* QuadLink::start: MavQueues::new() shared by the two threads it spawns
QuadStart ==
    /\ mav_queue = <<>>
    /\ io_pc = "start" /\ io_msg = NoMsg
    /\ tasks_pc = "tick"
    /\ commands = <<>> /\ app_count = 0
    /\ mav_enqueued = <<>> /\ mav_sent = <<>> /\ mav_processed = <<>>

\* the gen2 link on its own
InitQuad == /\ LinkInit /\ HealthIdle /\ CheckIdle /\ WireIdle /\ ConnIdle /\ XfIdle
            /\ ArmAbsent /\ QuadStart

NextQuad == QuadIoStart \/ QuadIoTickSend \/ QuadIoSend \/ QuadIoTickRecv
            \/ QuadTasksTick \/ QuadTasksCommand \/ QuadAppPush

SpecQuad == InitQuad /\ [][NextQuad]_vars

\* groundlink publishes for a client while the heartbeat worker is there to listen
HeartbeatFeed == hb_pc # "absent" /\ ClientPublish

XfWorker == XfRun \/ XfLoop \/ XfTransform \/ XfForEnd \/ XfTimer

NextStop == HealthTimer \/ HealthFeed \/ HealthStreamEnd
            \/ XfWorker \/ XfOnMessage \/ XfStreamEnd
            \/ HbWorker \/ HeartbeatFeed
            \/ StopTask

\* tokio runs every task that is ready and its timers expire: each worker keeps taking
\* the steps that need no message
FairStop == InitStop /\ [][NextStop]_vars
            /\ WF_vars(HealthTimer) /\ WF_vars(XfWorker) /\ WF_vars(HbWorker)

\* the Connection Manager with the tasks its start_task calls spawn
NextConn == ConnStartTask \/ ConnStopStore \/ ConnStopTake \/ ConnStopJoin
            \/ ConnStopReturn \/ ConnSend \/ ConnRecv
            \/ \E i \in TaskIds :
                 \/ TaskOpen(i) \/ TaskJoinSend(i) \/ TaskJoinRecv(i) \/ TaskReport(i)
                 \/ InnerSendLoop(i) \/ InnerSendRecvTimeout(i) \/ InnerSendGot(i)
                 \/ InnerSendWrite(i)
                 \/ InnerRecvLoop(i) \/ InnerRecvCall(i) \/ InnerRecvDeliver(i)
                 \/ InnerRecvPublishRaw(i)
                 \/ InnerRecvCheckStop(i)

SpecConn == Init /\ [][NextConn]_vars


\* tokio runs every task that is ready: each worker keeps taking its steps
FairSpec == Spec /\ WF_vars(RecvWorker) /\ WF_vars(SendWorker)
                 /\ WF_vars(HbWorker) /\ WF_vars(RsWorker)

\* ---------------------------------------------------------------- properties
HasFlag(flags, bit) == (flags \div bit) % 2 = 1

Contains(s, sub) ==
    \E i \in 1..(Len(s) - Len(sub) + 1) : SubSeq(s, i, i + Len(sub) - 1) = sub

\* C1: the request-stream worker publishes its stream-rate request only after it has
\* received a HEARTBEAT on the inbound liveness topic, also when stop is set at the gate.
C1_RequestOnlyAfterHeartbeat == rs_count > 0 => rs_seen

\* C2: the heartbeat worker publishes no ground-station heartbeat before it has observed a
\* vehicle HEARTBEAT, and once stop is set before any was seen it never publishes one.
C2_NoHeartbeatBeforeVehicleHeartbeat ==
    /\ [](hb_published => hb_seen)
    /\ [][(should_stop /\ ~hb_seen) => (hb_published' = hb_published)]_vars

C2_Witness == hb_published /\ hb_seen /\ hb_pc = "emit_sleep"

\* C3: once the receive worker has published a vehicle HEARTBEAT on
\* channels/ardulink/recv/HEARTBEAT after the heartbeat worker subscribed, the heartbeat
\* worker eventually reaches its periodic-emit phase.  Runs in which stop is requested,
\* the heartbeat task fails on an undecodable payload, or the receive worker itself
\* terminates are not held against the claim.
C3_HeartbeatWorkerLeavesWait ==
    recv_hb_after_sub ~> \/ hb_pc \in {"emit_loop", "emit_sleep"}
                         \/ should_stop
                         \/ hb_pc = "failed"
                         \/ recv_pc = "exit"

\* C4: the request-stream worker publishes at most one request; after the gate it publishes
\* exactly one and terminates, whatever number of vehicle heartbeats arrives.
C4_AtMostOneRequest ==
    /\ rs_count <= 1
    /\ rs_pc = "exit" => rs_count = 1
    /\ rs_seen => (rs_pc \in {"publish", "exit"} /\ (rs_pc = "publish" <=> rs_count = 0))

C4_Witness ==
    /\ rs_pc = "exit" /\ rs_seen /\ rs_count = 1
    /\ recv_pc = "publish" /\ recv_msg.tag = "HEARTBEAT"

\* C5: at most one worker holds the ConnectionHandle lock: the receive worker's and the
\* send worker's guards are never alive at the same time.
C5_MutualExclusion == ~(RecvHoldsGuard /\ SendHoldsGuard)

C5_Witness == send_pc = "wait_lock" /\ vehicle_owner = "recv" /\ recv_pc = "recv"

\* C6: the receive worker is never in its would-block sleep, or yielding between attempts,
\* while it still holds the lock.
C6_NoLockWhileSleeping == recv_pc \in {"sleep", "yield"} => vehicle_owner # "recv"

\* C7: a send worker that has decoded a message and asked for the lock eventually gets it
\* and performs the write, under fair scheduling.
C7_SendEventuallyWrites ==
    (send_pc \in {"wait_lock", "write"}) ~> (send_pc \in {"check_stop", "panicked"})

C7_Witness == send_pc = "wait_lock" /\ vehicle_owner = "send" /\ recv_pc = "wait_lock"

\* C8: no worker holds the lock during a bus operation: not the receive worker while it
\* publishes, not the send worker while it awaits its subscription.
C8_NoLockDuringBusOperation ==
    /\ recv_pc = "publish" => vehicle_owner # "recv"
    /\ send_pc = "next" => vehicle_owner # "send"

\* the system-health check as the claims state it
SysPasses(sys) ==
    sys.errors_comm < 100 /\ (sys.battery_remaining = -1 \/ sys.battery_remaining > 20)

EkfLocked(flags) ==
    /\ HasFlag(flags, 1) /\ HasFlag(flags, 2)
    /\ (HasFlag(flags, 8) \/ HasFlag(flags, 16))
    /\ HasFlag(flags, 32)

BothReceived == has_sys_status_data /\ has_ekf_data

\* C9: with both message types received and the latest SYS_STATUS healthy, the status is
\* HEALTHY iff the latest EKF flags hold attitude, horizontal velocity, a horizontal
\* position (relative or absolute) and absolute vertical position; else AWAITING_LOCK.
C9_HealthyIffEkfLocked ==
    (BothReceived /\ SysPasses(last_sys_status[1])) =>
        /\ current_status = "HEALTHY" <=> EkfLocked(last_ekf_status[1].flags)
        /\ ~EkfLocked(last_ekf_status[1].flags) => current_status = "AWAITING_LOCK"

C9_Witness ==
    /\ BothReceived
    /\ current_status = "HEALTHY"
    /\ ~HasFlag(last_ekf_status[1].flags, 8)
    /\ health_published[1] = "HEALTHY"

\* C10: with both message types received and the latest SYS_STATUS unhealthy, the status is
\* UNHEALTHY whatever the EKF flags are, and the reason names every failing system check.
C10_UnhealthyShortCircuits ==
    (BothReceived /\ ~SysPasses(last_sys_status[1])) =>
        /\ current_status = "UNHEALTHY"
        /\ last_sys_status[1].errors_comm >= 100 => Contains(last_reason, "Comm errors")
        /\ (last_sys_status[1].battery_remaining # -1 /\ last_sys_status[1].battery_remaining <= 20)
              => Contains(last_reason, "Battery low")

C10_Witness ==
    /\ BothReceived
    /\ current_status = "UNHEALTHY"
    /\ last_sys_status[1].errors_comm >= 100
    /\ last_sys_status[1].battery_remaining = 20
    /\ EkfLocked(last_ekf_status[1].flags)

\* the stored pair is a computed one: the constructor's reason has been replaced
Evaluated == last_reason # "Initializing health monitor"

\* C11: the status is AWAITING_DATA exactly while a SYS_STATUS or an EKF_STATUS_REPORT has
\* never been received, and the reason then names exactly the missing message types; in
\* particular the status stays AWAITING_DATA for as long as no EKF_STATUS_REPORT arrived.
C11_AwaitingDataIffMissing ==
    /\ (has_sys_status_data \/ has_ekf_data) => Evaluated
    /\ ~has_ekf_data => current_status = "AWAITING_DATA"
    /\ Evaluated =>
         /\ current_status = "AWAITING_DATA" <=> ~BothReceived
         /\ ~BothReceived =>
              /\ Contains(last_reason, "SYS_STATUS") <=> ~has_sys_status_data
              /\ Contains(last_reason, "EKF_STATUS_REPORT") <=> ~has_ekf_data

C11_Witness ==
    /\ has_sys_status_data /\ SysPasses(last_sys_status[1])
    /\ ~has_ekf_data
    /\ health_published = <<"AWAITING_DATA", "Waiting for EKF_STATUS_REPORT">>

\* the status the transition rules give for the latest values of the two message types
StatusOf(sys, ekf) ==
    IF sys = None \/ ekf = None THEN "AWAITING_DATA"
    ELSE IF ~SysPasses(sys[1]) THEN "UNHEALTHY"
    ELSE IF ~EkfLocked(ekf[1].flags) THEN "AWAITING_LOCK"
    ELSE "HEALTHY"

\* C12: the computed (status, reason) is a function of the most recently delivered
\* SYS_STATUS and EKF_STATUS_REPORT values alone: whatever was delivered before them, in
\* whatever order, the pair is the one the classifier gives for those two values.
C12_LatestValuesDecide ==
    Evaluated =>
        /\ current_status = StatusOf(seen_sys_status, seen_ekf_status)
        /\ <<current_status, last_reason>> =
              update_health_status(seen_sys_status # None, seen_sys_status,
                                   seen_ekf_status # None, seen_ekf_status)

C12_Witness ==
    /\ stale_replaced
    /\ BothReceived
    /\ ~SysPasses(seen_sys_status[1]) /\ EkfLocked(seen_ekf_status[1].flags)
    /\ health_published[1] = "UNHEALTHY"

\* C13: check_system_health passes exactly when errors_comm < 100 and battery_remaining is
\* -1 or above 20, over the u16 / i8 value ranges; errors_comm = 100 fails and
\* battery_remaining = 20 fails.
C13_SystemHealthThresholds ==
    chk_pc = "done" =>
        /\ chk_result[1] <=> SysPasses(chk_sys_status)
        /\ chk_sys_status.errors_comm = 100 => ~chk_result[1]
        /\ chk_sys_status.battery_remaining = 20 => ~chk_result[1]
        /\ (chk_sys_status.errors_comm = 99 /\ chk_sys_status.battery_remaining \in {-1, 21})
              => chk_result[1]

C13_Witness ==
    /\ chk_pc = "done"
    /\ chk_sys_status.errors_comm = 100 /\ chk_sys_status.battery_remaining = 21
    /\ chk_result = <<FALSE, "System unhealthy: Comm errors: 100">>

\* SYS_STATUS with 150 communication errors and 80% battery
NoisyLink == [errors_comm |-> 150, battery_remaining |-> 80]

\* C14 as stated: after SYS_STATUS {errors_comm = 150, battery_remaining = 80} was fed as
\* the only message, the status is UNHEALTHY and the reason mentions the comm errors.
C14_UnhealthyAfterSysStatusAlone ==
    (seen_sys_status = Some(NoisyLink) /\ seen_ekf_status = None /\ ~stale_replaced) =>
        /\ current_status = "UNHEALTHY"
        /\ Contains(last_reason, "Comm errors")

\* C14: after SYS_STATUS {errors_comm = 150, battery_remaining = 80} was fed as the only
\* message the status is AWAITING_DATA, waiting for the EKF report; once an
\* EKF_STATUS_REPORT was fed as well the status is UNHEALTHY and the reason names the
\* 150 comm errors.
C14_UnhealthyOnceEkfReported ==
    seen_sys_status = Some(NoisyLink) =>
        /\ seen_ekf_status = None =>
              <<current_status, last_reason>> = <<"AWAITING_DATA", "Waiting for EKF_STATUS_REPORT">>
        /\ seen_ekf_status # None =>
              /\ current_status = "UNHEALTHY"
              /\ Contains(last_reason, "Comm errors: 150")

C14_Witness ==
    /\ seen_sys_status = Some(NoisyLink) /\ seen_ekf_status # None /\ ~stale_replaced
    /\ health_published = <<"UNHEALTHY", "System unhealthy: Comm errors: 150">>

\* what an evaluation that finds `elapsed` ms gone since the last publish must do with the
\* pair it computes from the fields as they are after the step
PublishRule(elapsed) ==
    LET new == update_health_status(has_sys_status_data', last_sys_status',
                                    has_ekf_data', last_ekf_status')
    IN  /\ health_emitted' <=> (new # health_published \/ elapsed >= 3000)
        /\ health_emitted' => health_published' = new
        /\ ~health_emitted' => health_published' = health_published

\* C15: every evaluation, on a message (the step that restarts the check timer) or on the
\* check timer (the step that finds it expired), publishes the computed pair iff it differs
\* from the last published pair or at least 3 s have passed since the last publish; what
\* it publishes is the computed pair.
C15_PublishIffChangedOrDue ==
    [][(health_pc = "select" /\ should_stop' = should_stop) =>
          /\ since_check' = 0 => PublishRule(since_update)
          /\ since_check' >= 500 => PublishRule(since_update + TickMs)]_vars

C15_Witness ==
    /\ health_pc = "select" /\ BothReceived
    /\ ~health_emitted
    /\ since_check = 0
    /\ since_update > 2000 /\ since_update < 3000

\* C16: while the monitor runs and no inbound message has arrived for a full check
\* interval (so in particular while none has arrived since the last publish), less than
\* 3 s have passed since the last publish: the pair is re-emitted at the instant the 3 s
\* are reached.
C16_ReemitWithinUpdateInterval ==
    (health_pc = "select" /\ since_check >= 500) => since_update < 3000

C16_Witness ==
    /\ health_pc = "select" /\ BothReceived
    /\ current_status = "HEALTHY"
    /\ health_emitted
    /\ since_check >= 500
    /\ since_update = 0

\* the well-formed frames among the results read so far
IsOk(r) == r.ok
FramesRead == SelectSeq(recv_returned, IsOk)
\* a frame was read and its publish is the worker's next step
PublishPending == IF recv_pc = "publish" THEN 1 ELSE 0
FatalRead == \E i \in 1..Len(recv_returned) : recv_returned[i] = Err("IoFatal")

\* C17: the receive worker publishes exactly one bus message per well-formed frame and
\* none per malformed frame, and a malformed frame never ends it: it has exited only if
\* stop was requested or the last result read was a fatal I/O error.
C17_OnePublishPerWellFormedFrame ==
    /\ Len(recv_published) + PublishPending = Len(FramesRead)
    /\ recv_pc = "exit" =>
          \/ should_stop
          \/ (recv_returned # <<>> /\ recv_returned[Len(recv_returned)] = Err("IoFatal"))

C17_Witness ==
    /\ recv_returned = <<Ok(AttitudeMsg), Err("ParseError"), Ok(VehicleHeartbeat)>>
    /\ Len(recv_published) = 2
    /\ recv_pc = "yield" /\ ~should_stop

\* C18: the receive worker publishes the frames in exactly the order it read them, each
\* on channels/ardulink/recv/<variant tag of the frame>.
C18_PublishedInReceiveOrder ==
    /\ Len(recv_published) = Len(FramesRead) - PublishPending
    /\ \A i \in 1..Len(recv_published) :
          /\ recv_published[i][1] = "channels/ardulink/recv/" \o FramesRead[i].msg.tag
          /\ recv_published[i][2].json
          /\ recv_published[i][2].doc = FramesRead[i].msg

C18_Witness ==
    /\ Len(recv_published) = 3
    /\ recv_published[1][1] = "channels/ardulink/recv/HEARTBEAT"
    /\ recv_published[2][1] = "channels/ardulink/recv/ATTITUDE"
    /\ recv_published[3][1] = "channels/ardulink/recv/HEARTBEAT"

\* C19: once vehicle.recv() has returned a fatal I/O error the receive worker reads the
\* link no more and publishes nothing more, whether or not stop was requested: it has
\* exited, or stop is set and its next step is the stop check that makes it exit.
C19_FatalErrorEndsWorker ==
    /\ [](FatalRead =>
            /\ recv_returned[Len(recv_returned)] = Err("IoFatal")
            /\ Len(recv_published) = Len(FramesRead)
            /\ recv_pc \in {"check_stop", "exit"}
            /\ recv_pc = "check_stop" => should_stop)
    /\ [][FatalRead => (recv_pc' = "exit" /\ UNCHANGED wireVars)]_vars

C19_Witness ==
    /\ FatalRead /\ should_stop /\ recv_pc = "check_stop"
    /\ link_frames # <<>>
    /\ recv_published # <<>>

\* C20: a failed write does not stop the send worker: whatever vehicle.send() returns,
\* the worker leaves the write with the lock released and goes on to its stop check, from
\* where it takes the next message.
C20_FailedWriteKeepsWorker ==
    [][send_pc = "write" => send_pc' \in {"write", "check_stop"}]_vars


\* C21: when the send worker takes an outbound payload that does not decode to a MavMessage
\* it ends with an error on that step, without asking for the connection lock and without
\* holding a message to write, and it never takes another step: nothing is written for
\* that payload or any later one.
C21_UndecodablePayloadEndsSendWorker ==
    /\ [][(send_pc = "next" /\ send_pc' # "next" /\ ~Head(send_inbox).json) =>
             /\ send_pc' = "failed"
             /\ send_msg' = NoMsg
             /\ <<vehicle_owner, vehicle_waiters>>' = <<vehicle_owner, vehicle_waiters>>]_vars
    /\ [][send_pc = "failed" => (send_pc' = "failed" /\ send_msg' = NoMsg)]_vars
    /\ [](send_pc = "failed" =>
            (vehicle_owner # "send" /\ \A i \in 1..Len(vehicle_waiters) : vehicle_waiters[i] # "send"))

C21_Witness == send_pc = "failed" /\ vehicle_owner = "recv" /\ ~should_stop


\* ---------------------------------------------------------------- connection manager claims
Started(i) == task_pc[i] # "none"

\* the result the i-th call of start_task returned
StartResult(i) ==
    LET starts == SelectSeq(mgr_calls, LAMBDA call : ~IsStop(call))
    IN  IF i <= Len(starts) THEN starts[i][2] ELSE "none"

\* C22: if opening the Vehicle Link fails, the start_task call that asked for it has
\* returned ConnectionError and not success.
C22_OpenFailureReturnsConnectionError ==
    \A i \in TaskIds :
        open_result[i] = "ConnectionError" => StartResult(i) = "ConnectionError"


\* the handle of the task spawned by the i-th start_task call is, or has been, in
\* self.task_handles
HandleStored(i) ==
    \/ i \in Range(task_handles) \/ i \in Range(handles)
    \/ \E k \in 1..Len(join_results) : join_results[k][1] = i

\* C23: send and receive tasks exist only for a call whose open succeeded; when the open
\* failed, no send or receive task was started and no task handle of that call is stored.
C23_NothingStartedOrStoredOnOpenFailure ==
    \A i \in TaskIds :
        /\ (inner_send_pc[i] # "none" \/ inner_recv_pc[i] # "none") => open_result[i] = "Ok"
        /\ open_result[i] = "ConnectionError" => ~HandleStored(i)


\* a task of the i-th call met a failure it does not recover from
WorkerFailed(i) ==
    \/ open_result[i] = "ConnectionError"
    \/ inner_recv_pc[i] \in {"exit_fatal", "panicked"}

\* C24: once the task spawned by start_task has run to its end after a failure of one of
\* its workers (the receive task ending on a fatal I/O error included), an error text is
\* on ardulink/message and the literal ERROR is on ardulink/state.
C24_WorkerFailureReported ==
    \A i \in TaskIds :
        (task_pc[i] = "done" /\ WorkerFailed(i)) =>
            /\ \E pub \in task_errors[i] : pub[1] = ErrorMessageTopic /\ pub[2] # ""
            /\ <<ErrorStateTopic, "ERROR">> \in task_errors[i]


SendRunning(i) == inner_send_pc[i] \in {"loop", "wait", "got", "send"}

\* C25: the step in which a task fails (the open fails, the receive task ends on a fatal
\* read error or panics, the error report panics) leaves the stop flag as it was and moves
\* no other task; and while the stop flag is clear, the send task of a call whose receive
\* task has ended that way is still running.
C25_FailureLeavesSiblingsRunning ==
    /\ [][\A i \in TaskIds :
            (WorkerFailed(i)' /\ ~WorkerFailed(i)) \/ (task_pc[i]' = "panicked" /\ task_pc[i] # "panicked")
            => /\ should_stop' = should_stop
               /\ inner_send_pc' = inner_send_pc
               /\ \A j \in TaskIds \ {i} :
                    inner_recv_pc[j]' = inner_recv_pc[j] /\ task_pc[j]' = task_pc[j]]_vars
    /\ [](\A i \in TaskIds :
            (inner_recv_pc[i] \in {"exit_fatal", "panicked"} /\ ~should_stop) => SendRunning(i))

\* the receive task has ended on a fatal error and the send task is about to write a message
C25_Witness ==
    inner_recv_pc[1] = "exit_fatal" /\ inner_send_pc[1] = "send" /\ ~should_stop


LastCall == mgr_calls[Len(mgr_calls)]

\* stop_task has returned and no call has been made since
StopReturned == mgr_pc = "idle" /\ mgr_calls # <<>> /\ IsStop(LastCall)

\* C26: while stop_task sleeps or awaits handles the stop flag is already set; the step in
\* which it returns finds every task whose handle start_task stored run to its end; and
\* once it has returned the handle list is empty.
C26_StopSetsFlagThenJoinsAll ==
    /\ [](mgr_pc \in {"stop_sleep", "stop_join"} => should_stop)
    /\ [][(mgr_pc = "stop_join" /\ mgr_pc' = "idle") =>
             \A i \in TaskIds : HandleStored(i) => task_pc[i] \in Completed]_vars
    /\ [](StopReturned => (task_handles = <<>> /\ handles = <<>>))

\* stop_task has returned after awaiting the tasks of two start_task calls, one of which
\* had opened the link and run its workers
C26_Witness ==
    /\ StopReturned
    /\ Len(join_results) = 2
    /\ open_result[1] = "Ok" /\ inner_recv_pc[1] = "exit" /\ inner_send_pc[1] = "exit"


Joined(i) == \E k \in 1..Len(join_results) : join_results[k][1] = i

\* C27: a handle whose task failed does not end stop_task: the step that awaits it leaves
\* stop_task awaiting, every call of stop_task returns Ok, and once it has returned every
\* task start_task spawned has been awaited.
C27_JoinFailureNotPropagated ==
    /\ [][(Len(join_results') > Len(join_results)) => mgr_pc' = "stop_join"]_vars
    /\ [](\A k \in 1..Len(mgr_calls) : IsStop(mgr_calls[k]) => mgr_calls[k][2] = "Ok")
    /\ [](StopReturned => \A i \in TaskIds : Started(i) => Joined(i))

\* stop_task has returned after the first handle it awaited gave a JoinError and the
\* second one completed
C27_Witness ==
    StopReturned /\ join_results = << <<1, "JoinError">>, <<2, "Ok">> >>


\* C28: as long as start_task has not been called, calls of stop_task leave the manager as
\* new() made it: the stop flag clear and the handle list empty.
C28_StopBeforeStartChangesNothing ==
    (\A i \in TaskIds : ~Started(i)) => (~should_stop /\ task_handles = <<>> /\ handles = <<>>)


\* C29: the stop flag is clear until stop_task is first called, the only step that changes
\* it is the first step of stop_task, and once set it stays set whatever is called later.
C29_StopSignalOneShot ==
    /\ []((mgr_pc = "idle" /\ \A k \in 1..Len(mgr_calls) : ~IsStop(mgr_calls[k])) => ~should_stop)
    /\ [][should_stop' # should_stop => (mgr_pc = "idle" /\ mgr_pc' = "stop_sleep")]_vars
    /\ [][should_stop => should_stop']_vars

\* the flag is still set after a start_task that followed a stop_task has opened the link
C29_Witness ==
    /\ should_stop
    /\ Len(mgr_calls) = 2 /\ IsStop(mgr_calls[1]) /\ ~IsStop(mgr_calls[2])
    /\ open_result[1] = "Ok"


\* ---------------------------------------------------------------- transform pipeline claims
\* positions of the for loop that are behind it
XfDone ==
    IF xf_pc = "for" THEN xf_index - 1
    ELSE IF xf_pc = "failed" THEN xf_index
    ELSE Len(transformers)

IsMatch(k) == transformers[k].topic = xf_msg[1]
Succeeds(k) == transform(transformers[k], xf_msg[2]).ok

PublishedFor(k) == \E n \in 1..Len(xf_published) : xf_published[n][1] = k

\* the for loop went through the message in hand with the bus connection available
XfLoopThrough == xf_msg # <<>> /\ xf_pc \in {"loop", "select", "exit"}

\* C31: the turn of the for loop in which a transform returns Err publishes nothing and
\* goes on to the next transformer with the worker still in its loop; once the loop is
\* through a message, every other matching transformer has been evaluated and, if it
\* returned Ok, published for, whatever errors there were on this or an earlier message.
C31_TransformErrorIsolated ==
    /\ [][(xf_pc = "for" /\ xf_errors' # xf_errors) =>
             /\ xf_pc' = "for"
             /\ xf_index' = xf_index + 1
             /\ xf_published' = xf_published]_vars
    /\ [](XfLoopThrough =>
            \A k \in 1..Len(transformers) :
                IsMatch(k) =>
                    /\ \E n \in 1..Len(xf_evaluated) : xf_evaluated[n] = k
                    /\ Succeeds(k) => PublishedFor(k))

\* the first transformer returned Err on an earlier message; on the message in hand it
\* returned Ok and was published for, a later transformer matching the same message ran
\* after it and was published for, and the worker is back in its loop
C31_Witness ==
    /\ XfLoopThrough /\ xf_count = 2
    /\ 1 \in xf_errors
    /\ Len(xf_evaluated) = 2 /\ xf_evaluated[1] = 1
    /\ Succeeds(1) /\ PublishedFor(1) /\ PublishedFor(xf_evaluated[2])


\* ---------------------------------------------------------------- stream end and stop
\* C32: with the stop flag clear, a worker whose subscription stream has ended does not
\* take its timer branch and go round its loop again: the health monitor has run no
\* periodic check since, unless it has ended, and the transform worker is not back at
\* its while test.
C32_StreamEndEndsWorker ==
    ~should_stop =>
        /\ health_stream = "closed_ran" => health_pc = "exit"
        /\ xf_stream = "closed" => xf_pc # "loop"


\* C33: a receive task whose recv_tx.send returned an error does not go on: it is never
\* found past the failed enqueue, about to publish the message and read the link again.
C33_EnqueueFailureEndsReceiveTask ==
    \A i \in TaskIds : inner_recv_pc[i] # "enqueue_failed"


\* ---------------------------------------------------------------- health monitor, later claims
\* C34: every periodic check re-arms the check timer: whenever the monitor waits in its
\* select!, the deadline last_check_time + check_interval lies ahead, so that a further
\* check_interval passes between one periodic check and the next.
C34_PeriodicCheckRearmsTimer ==
    health_pc = "select" => since_check < CheckIntervalMs


\* C35: once the stop flag is set, the health monitor, the transform worker and the
\* heartbeat worker in its emit loop each come to their end, whether or not a message
\* arrives on their subscription.
C35_TimerWorkersEndAfterStop ==
    /\ (should_stop /\ health_pc # "absent") ~> (health_pc = "exit")
    /\ (should_stop /\ xf_pc # "off") ~> (xf_pc \in {"exit", "failed"})
    /\ (should_stop /\ hb_pc \in {"emit_loop", "emit_sleep"}) ~> (hb_pc = "exit")

\* the health monitor has ended after a stop without ever having been sent a message: its
\* timer branch woke it
C35_Witness ==
    /\ should_stop /\ health_pc = "exit"
    /\ seen_sys_status = None /\ seen_ekf_status = None
    /\ since_check >= CheckIntervalMs


\* ---------------------------------------------------------------- send worker after stop
\* C36: with the stop flag set, the send worker passes no message on to the link: a
\* payload it takes from its subscription then is dropped, the worker neither asks for
\* the connection lock nor holds a message to write.
C36_NoWriteAfterStop ==
    [][(should_stop /\ send_pc = "next") =>
          (send_pc' \notin {"wait_lock", "write"} /\ send_msg' = NoMsg)]_vars


\* a payload that stores nothing: it does not decode, or decodes to another variant than
\* the channel's
Foreign(topic, payload) ==
    \/ ~payload.json
    \/ payload.doc.tag # (IF topic = SysStatusTopic THEN "SYS_STATUS" ELSE "EKF_STATUS_REPORT")

Stored == <<has_sys_status_data, last_sys_status, has_ekf_data, last_ekf_status>>

Computed == update_health_status(has_sys_status_data, last_sys_status,
                                 has_ekf_data, last_ekf_status)

\* C37: the message branch run on a payload that does not decode, or that decodes to
\* another variant than its channel's, leaves the two stored values and the two has-data
\* flags as they were, so the status and reason computed from them are the same after as
\* before, and the monitor is still in its loop unless a stop was requested.
C37_ForeignPayloadChangesNothing ==
    [][\A topic \in {SysStatusTopic, EkfStatusTopic} :
          \A payload \in {p \in HealthPayloads(topic) : Foreign(topic, p)} :
             (health_pc = "select" /\ since_check' = 0 /\ HealthDeliver(topic, payload)) =>
                 /\ Stored' = Stored
                 /\ Computed' = Computed
                 /\ health_pc' = IF should_stop THEN "exit" ELSE "select"]_vars

\* nothing is stored yet although the message branch has run: what it was given was foreign
C37_Witness ==
    /\ health_pc = "select" /\ since_check = 0
    /\ ~has_sys_status_data /\ ~has_ekf_data
    /\ last_reason # "Initializing health monitor"


\* C38: once both a SYS_STATUS and an EKF_STATUS_REPORT have been received the monitor stays
\* out of AWAITING_DATA: no message and no periodic check takes either receipt back, and
\* every status held from then on is UNHEALTHY, AWAITING_LOCK or HEALTHY.
C38_NoReturnToAwaitingData ==
    [][/\ BothReceived => BothReceived'
       /\ BothReceived' => current_status' \in {"UNHEALTHY", "AWAITING_LOCK", "HEALTHY"}]_vars

\* with both received and a value replaced since, a periodic check has run and the status is
\* one of the three
C38_Witness ==
    /\ BothReceived /\ stale_replaced
    /\ since_check = CheckIntervalMs
    /\ current_status = "AWAITING_LOCK"
    /\ health_published[1] = "AWAITING_LOCK"


\* C39: the arm scenario publishes its arm command only after wait_for_message has returned
\* a HEALTHY value from ardulink/health/status, which only the health monitor puts there;
\* until then, and in a run whose subscription ends first, the runner is in its first call
\* or has failed, and nothing has been published on channels/ardulink/send.
C39_ArmOnlyAfterHealthy ==
    /\ arm_sent > 0 => health_verified # None
    /\ health_verified # None => to_string("HEALTHY") \in arm_observed
    /\ health_verified = None =>
          /\ arm_sent = 0
          /\ arm_pc \in {"loop", "waiting", "failed"}
    /\ arm_pc = "waiting" => current_t = 0

\* the scenario read UNHEALTHY, then HEALTHY, and one second later published the command
C39_Witness ==
    /\ arm_sent = 1
    /\ {to_string("UNHEALTHY"), to_string("HEALTHY")} \subseteq arm_observed
    /\ current_t = ArmAtT


\* C40: in the gen2 link a message enqueued on MavQueues for transmission is never handled
\* by MavTasks::process_message as an inbound message, and no message is written to the
\* connection that was not enqueued, or written twice.
C40_OutboundNeverInbound ==
    /\ \A i \in 1..Len(mav_processed) : mav_processed[i] \notin Range(mav_enqueued)
    /\ \A i \in 1..Len(mav_sent) :
          /\ mav_sent[i] \in Range(mav_enqueued)
          /\ \A j \in 1..Len(mav_sent) : mav_sent[j] = mav_sent[i] => j = i

====
